---------------------------- MODULE Spec2Model ----------------------------
(***************************************************************************)
(* A model of compose-cat (src/src/index.ts): the dotenv merger, the       *)
(* compose-binary resolver, hook discovery and the command orchestration.  *)
(*                                                                         *)
(* Strings are sequences of tokens (<<"cmp", ".", "pre", ".", "sh">>), so  *)
(* that concatenation, split, trim and startsWith are computed as the code *)
(* computes them.  The empty string and `undefined` are both <<>> wherever *)
(* the code only tests a string for truthiness.                            *)
(***************************************************************************)
EXTENDS Integers, Sequences, FiniteSets, TLC

VARIABLES
    platform,                 \* process.platform
    command,                  \* the command whose action callback runs
    options,                  \* the options commander hands to the action
    composeArgs,              \* the passthrough arguments
    processEnv,               \* process.env
    fs,                       \* the dotenv candidates on disk
    entries,                  \* readdirSync(cwd), in scan order
    probeStatus,              \* res.status of `<candidate> version`, per candidate
    prefixFromOptions,        \* module-level `let prefixFromOptions`
    dotenvPrefixFromOptions,  \* module-level `let dotenvPrefixFromOptions`
    detected,                 \* what detectDotenvFilesAndEnv returned
    binCalls,                 \* the candidate lists handed to detectComposeBin
    probed,                   \* the candidates spawnSync probed, in order
    extracted,                \* what prepare returned
    pc,                       \* the position of the action callback
    nameIdx,                  \* index of the hook name in `for (const h of hooks)`
    hooksList,                \* `hooks` inside the running runHooks call
    hookIdx,                  \* index of the hook in `for (const h of hooks)` of runHooks
    stepIdx,                  \* index of the next delegate step
    running,                  \* the child processes spawned and not yet exited
    awaiting,                 \* the callback is suspended in `await runShellCommand(...)`
    code,                     \* `let code` of the action callback
    exitCode,                 \* the exit status of the process
    trace                     \* the runHooks calls made and the child processes that exited, in order

vars == <<platform, command, options, composeArgs, processEnv, fs, entries,
          probeStatus, prefixFromOptions, dotenvPrefixFromOptions, detected,
          binCalls, probed, extracted, pc, nameIdx, hooksList, hookIdx,
          stepIdx, running, awaiting, code, exitCode, trace>>

---------------------------------------------------------------------------
(* Bounds of the model. *)

MaxProfileArgs == 1     \* --profile values given on the command line
MaxUserBins == 2        \* --cmp-bin values given on the command line
MaxHookNames == 2       \* --cmp-hook values given on the command line
MaxExit == 2            \* child processes exit with a status in 0..MaxExit
MaxPassthrough == 2     \* passthrough arguments given on the command line
MaxProfileValues == 2   \* --profile values, among them duplicates and odd names

---------------------------------------------------------------------------
(* Strings. *)

Whitespace == {" "}

StartsWith(s, p) == Len(p) <= Len(s) /\ SubSeq(s, 1, Len(p)) = p

RECURSIVE Split(_, _)
Split(s, sep) ==
    IF \A i \in 1..Len(s) : s[i] # sep
    THEN <<s>>
    ELSE LET i == CHOOSE n \in 1..Len(s) :
                      s[n] = sep /\ \A j \in 1..(n - 1) : s[j] # sep
         IN  <<SubSeq(s, 1, i - 1)>> \o Split(SubSeq(s, i + 1, Len(s)), sep)

RECURSIVE Trim(_)
Trim(s) ==
    IF s = <<>> THEN s
    ELSE IF Head(s) \in Whitespace THEN Trim(Tail(s))
    ELSE IF s[Len(s)] \in Whitespace THEN Trim(SubSeq(s, 1, Len(s) - 1))
    ELSE s

RECURSIVE Join(_, _)
Join(parts, sep) ==
    IF parts = <<>> THEN <<>>
    ELSE IF Len(parts) = 1 THEN parts[1]
    ELSE parts[1] \o <<sep>> \o Join(Tail(parts), sep)

\* `a || b` on strings.
Or(a, b) == IF a # <<>> THEN a ELSE b

Digits == <<"1", "2", "3", "4", "5", "6", "7", "8", "9">>
\* `${index + 1}` in a template string.
NumStr(n) == <<Digits[n]>>

---------------------------------------------------------------------------
(* Environments: StringMap, a function from keys to values. *)

EmptyEnv == [k \in {} |-> <<>>]

\* env[key], with undefined read as the empty string.
EnvGet(env, key) == IF key \in DOMAIN env THEN env[key] ELSE <<>>

\* env[key] = value
EnvSet(env, key, value) ==
    [k \in DOMAIN env \cup {key} |-> IF k = key THEN value ELSE env[k]]

\* delete env[key] for every key of `keys`
EnvDelete(env, keys) == [k \in DOMAIN env \ keys |-> env[k]]

defaultBins == <<<<"docker", " ", "compose">>, <<"podman", " ", "compose">>,
                 <<"docker-compose">>, <<"podman-compose">>>>

DEFAULT_PREFIX == <<"CMPCAT_">>
DEFAULT_DOTENV_PREFIX == <<".env">>

PrefixOf(fromOptions, env) ==
    Or(fromOptions, Or(EnvGet(env, <<"CMPCAT_ARG_PREFIX">>), DEFAULT_PREFIX))

getPrefix == PrefixOf(prefixFromOptions, processEnv)

getDotenvPrefix ==
    Or(dotenvPrefixFromOptions,
       Or(EnvGet(processEnv, <<"CMPCAT_ARG_DOTENV_PREFIX">>), DEFAULT_DOTENV_PREFIX))

\* `${prefix}${key}`; key is given as its tokens.
envKey(key, prefix) == prefix \o key

---------------------------------------------------------------------------
(* The dotenv merger. *)

Cwd == <<"/cwd", "/">>
\* path.resolve(process.cwd(), name) for a name without path separators.
Resolve(name) == Cwd \o name

\* existsSync answering true for every path.
existsAlways(f) == TRUE

existsSync(f) == f \in DOMAIN fs /\ fs[f].exists

\* populate with { override: false }: a key already set is kept.
populateKeep(base, parsed) ==
    [k \in DOMAIN base \cup DOMAIN parsed |->
        IF k \in DOMAIN base THEN base[k] ELSE parsed[k]]

\* dotenv's populate(base, parsed, { override: true }): every parsed key is written.
populate(base, parsed) ==
    [k \in DOMAIN base \cup DOMAIN parsed |->
        IF k \in DOMAIN parsed THEN parsed[k] ELSE base[k]]

\* mergeEnv with the `{}` of its catch block taken for the merge target.
mergeEnvClearing(base, file) ==
    IF fs[file].readable THEN populate(base, fs[file].content) ELSE EmptyEnv

\* mergeEnv(base, file): `base` as the call leaves it.  readFileSync throws for a
\* file that cannot be read, and the catch block leaves `base` untouched; the
\* callers drop the return value.
mergeEnv(base, file) ==
    IF fs[file].readable THEN populate(base, fs[file].content) ELSE base

RECURSIVE mergeAll(_, _)
\* for (const f of files) mergeEnv(base, f)
mergeAll(base, files) ==
    IF files = <<>> THEN base
    ELSE mergeAll(mergeEnv(base, Head(files)), Tail(files))

\* The parts as split, blank ones included.
untrimmedParts(parts) == parts

RECURSIVE trimmedParts(_)
\* trim every part and keep the non-empty ones
trimmedParts(parts) ==
    IF parts = <<>> THEN <<>>
    ELSE LET s == Trim(Head(parts))
         IN  (IF s # <<>> THEN <<s>> ELSE <<>>) \o trimmedParts(Tail(parts))

RECURSIVE firstOccurrences(_)
\* The members of s, each kept where it occurs first.
firstOccurrences(s) ==
    IF s = <<>> THEN <<>>
    ELSE LET d == firstOccurrences(SubSeq(s, 1, Len(s) - 1))
         IN  IF \E i \in 1..Len(d) : d[i] = s[Len(s)] THEN d ELSE Append(d, s[Len(s)])

RECURSIVE normalizeProfilesDedup(_)
\* normalizeProfiles pushing a name only when `out` does not hold it yet.
normalizeProfilesDedup(values) ==
    IF values = <<>> THEN <<>>
    ELSE firstOccurrences(normalizeProfilesDedup(SubSeq(values, 1, Len(values) - 1))
                          \o trimmedParts(Split(values[Len(values)], ",")))

RECURSIVE normalizeProfiles(_)
\* `values` is the array commander collected (undefined: <<>>).
normalizeProfiles(values) ==
    IF values = <<>> THEN <<>>
    ELSE (IF Head(values) = <<>> THEN <<>>
          ELSE trimmedParts(Split(Head(values), ",")))
         \o normalizeProfiles(Tail(values))

parseCsv(value) ==
    IF value = <<>> THEN <<>> ELSE trimmedParts(Split(value, ","))

RECURSIVE profileCandidates(_, _)
\* for (const p of profiles) profileDotenvFiles.push(`${prefix}.${p}`, `${prefix}.${p}.local`)
profileCandidates(dotenvPrefix, profiles) ==
    IF profiles = <<>> THEN <<>>
    ELSE <<Resolve(dotenvPrefix \o <<".">> \o Head(profiles)),
           Resolve(dotenvPrefix \o <<".">> \o Head(profiles) \o <<".", "local">>)>>
         \o profileCandidates(dotenvPrefix, Tail(profiles))

\* detectDotenvFilesAndEnv without the test of options.disableProfileBasedDotenv.
detectDotenvFilesAndEnvIgnoringFlag(profileFromCli, opts) ==
    LET dotenvPrefix == getDotenvPrefix
        baseDotenvFiles ==
            SelectSeq(<<Resolve(dotenvPrefix),
                        Resolve(dotenvPrefix \o <<".", "local">>)>>, existsSync)
        profiles == normalizeProfiles(profileFromCli)
        profileDotenvFiles ==
            SelectSeq(profileCandidates(dotenvPrefix, profiles), existsSync)
    IN  [envFiles  |-> baseDotenvFiles \o profileDotenvFiles,
         mergedEnv |-> mergeAll(mergeAll(processEnv, baseDotenvFiles), profileDotenvFiles),
         profiles  |-> profiles]

detectDotenvFilesAndEnv(profileFromCli, opts) ==
    LET dotenvPrefix == getDotenvPrefix
        baseDotenvFiles ==
            SelectSeq(<<Resolve(dotenvPrefix),
                        Resolve(dotenvPrefix \o <<".", "local">>)>>, existsSync)
        baseMerged == mergeAll(processEnv, baseDotenvFiles)
        profiles == normalizeProfiles(profileFromCli)
        profileDotenvFiles ==
            SelectSeq(IF opts.disableProfileBasedDotenv THEN <<>>
                      ELSE profileCandidates(dotenvPrefix, profiles), existsSync)
    IN  [envFiles  |-> baseDotenvFiles \o profileDotenvFiles,
         mergedEnv |-> mergeAll(baseMerged, profileDotenvFiles),
         profiles  |-> profiles]

---------------------------------------------------------------------------
(* Profile bookkeeping keys. *)

RECURSIVE withIndexedProfiles(_, _, _, _)
\* profiles.forEach((profile, index) => env[`${profileKeyPrefix}${index + 1}`] = profile)
withIndexedProfiles(env, profiles, profileKeyPrefix, i) ==
    IF i > Len(profiles) THEN env
    ELSE withIndexedProfiles(EnvSet(env, profileKeyPrefix \o NumStr(i), profiles[i]),
                             profiles, profileKeyPrefix, i + 1)

\* setProfileEnvVariables without the two loops that delete the old indexed keys.
setProfileEnvVariablesKeepOld(env, profiles, prefix) ==
    IF Len(profiles) = 0 THEN EnvDelete(env, {prefix \o <<"PROFILES">>})
    ELSE withIndexedProfiles(EnvSet(env, prefix \o <<"PROFILES">>, Join(profiles, ",")),
                             profiles, prefix \o <<"PROFILE_">>, 1)

\* setProfileEnvVariables does the same to process.env and to mergedEnv: this is
\* what it makes of either.
setProfileEnvVariables(env, profiles, prefix) ==
    LET profileKeyPrefix == prefix \o <<"PROFILE_">>
        profilesKey == prefix \o <<"PROFILES">>
        cleared == EnvDelete(env, {k \in DOMAIN env : StartsWith(k, profileKeyPrefix)})
    IN  IF Len(profiles) = 0 THEN EnvDelete(cleared, {profilesKey})
        ELSE withIndexedProfiles(EnvSet(cleared, profilesKey, Join(profiles, ",")),
                                 profiles, profileKeyPrefix, 1)

---------------------------------------------------------------------------
(* The compose-binary resolver. *)

\* res.status of spawnSync when the probe timed out, was killed or did not spawn.
NullStatus == -1

ProbeOutcomes == (0..MaxExit) \cup {NullStatus}

\* `if (res.status === 0)` accepting every probe that exited, whatever its status.
probeSucceededAnyExit(candidate) == probeStatus[candidate] # NullStatus

\* if (res.status === 0)
probeSucceeded(candidate) == probeStatus[candidate] = 0

RECURSIVE detectFrom(_, _)
\* The loop of detectComposeBin from candidate i on: the candidate returned (found
\* FALSE for undefined) and the candidates probed on the way.
detectFrom(candidates, i) ==
    IF i > Len(candidates) THEN [found |-> FALSE, bin |-> <<>>, probed |-> <<>>]
    ELSE IF probeSucceeded(candidates[i])
         THEN [found |-> TRUE, bin |-> candidates[i], probed |-> <<candidates[i]>>]
         ELSE LET r == detectFrom(candidates, i + 1)
              IN  [r EXCEPT !.probed = <<candidates[i]>> \o @]

detectComposeBin(candidates) == detectFrom(candidates, 1)

\* The branches of prepare tried in the order env, user, default.
candidateListEnvFirst(userBins, envBins) ==
    IF Len(envBins) > 0 THEN envBins
    ELSE IF Len(userBins) > 0 THEN userBins
    ELSE defaultBins

\* The list the if / else if / else of prepare hands to detectComposeBin.
candidateList(userBins, envBins) ==
    IF Len(userBins) > 0 THEN userBins
    ELSE IF Len(envBins) > 0 THEN envBins
    ELSE defaultBins

\* checkBinOrThrow letting every value through.
checkBinAlwaysOk(value) == TRUE

\* checkBinOrThrow returns false for undefined and for the empty string.
checkBinOrThrow(value) == value # <<>>

RECURSIVE flagged(_, _)
\* for (const x of xs) args.push(flag, x)
flagged(flag, xs) ==
    IF xs = <<>> THEN <<>> ELSE <<flag, Head(xs)>> \o flagged(flag, Tail(xs))

\* buildComposeArgs pushing the passthrough arguments first.
buildComposeArgsExtraFirst(envFiles, mergedEnv, profiles, extraArgs) ==
    extraArgs \o flagged(<<"--profile">>, profiles) \o flagged(<<"--env-file">>, envFiles)

buildComposeArgs(envFiles, mergedEnv, profiles, extraArgs) ==
    flagged(<<"--profile">>, profiles) \o flagged(<<"--env-file">>, envFiles) \o extraArgs

\* Every key of mergedEnv copied to process.env.
withAllVariables(env, mergedEnv) ==
    [k \in DOMAIN env \cup DOMAIN mergedEnv |->
        IF k \in DOMAIN mergedEnv THEN mergedEnv[k] ELSE env[k]]

\* for (const key in mergedEnv) if (key.startsWith('COMPOSE_')) process.env[key] = mergedEnv[key]
withComposeVariables(env, mergedEnv) ==
    LET copied == {k \in DOMAIN mergedEnv : StartsWith(k, <<"COMPOSE_">>)}
    IN  [k \in DOMAIN env \cup copied |-> IF k \in copied THEN mergedEnv[k] ELSE env[k]]

\* prepare(composeArgs, options): its return value (ok FALSE for undefined) and
\* everything it writes on the way.
prepare(cArgs, opts) ==
    LET d == detectDotenvFilesAndEnv(opts.profile, opts)
        prefix == PrefixOf(opts.cmpPrefix, processEnv)
        mergedEnv == setProfileEnvVariables(d.mergedEnv, d.profiles, prefix)
        env1 == setProfileEnvVariables(processEnv, d.profiles, prefix)
        envBins == parseCsv(EnvGet(mergedEnv, envKey(<<"COMPOSE_", "BIN">>, prefix)))
        candidates == candidateList(opts.cmpBin, envBins)
        r == detectComposeBin(candidates)
        foundBin == IF r.found THEN r.bin ELSE <<>>
        ok == checkBinOrThrow(foundBin)
        env2 == EnvSet(env1, envKey(<<"DETECTED_", "COMPOSE_", "BIN">>, prefix), foundBin)
    IN  [ok         |-> ok,
         detected   |-> d,
         candidates |-> candidates,
         probed     |-> r.probed,
         processEnv |-> IF ok THEN withComposeVariables(env2, mergedEnv) ELSE env1,
         result     |-> IF ok
                        THEN [ok |-> TRUE, composeBin |-> foundBin,
                              args |-> buildComposeArgs(d.envFiles, mergedEnv,
                                                        d.profiles, cArgs),
                              mergedEnv |-> mergedEnv, hooks |-> opts.cmpHook]
                        ELSE [ok |-> FALSE, composeBin |-> <<>>, args |-> <<>>,
                              mergedEnv |-> EmptyEnv, hooks |-> <<>>]]

---------------------------------------------------------------------------
(* Hook discovery. *)

currentPlatform ==
    IF platform = <<"win32">> THEN <<<<"win32">>, <<"windows">>>>
    ELSE IF platform = <<"darwin">> THEN <<<<"darwin">>, <<"macos">>>>
    ELSE <<platform>>

\* Which of filePatterns[0] and filePatterns[1] matches `name` (0: neither).  With a
\* hook name the patterns have one more [^.]+ segment, which is not compared with it.
matchedPattern(name, isCmd) ==
    LET segs == Split(name, ".")
        shaped == /\ segs[1] = <<"cmp">>
                  /\ \A i \in 1..Len(segs) : segs[i] # <<>>
        n == IF isCmd THEN 4 ELSE 3
    IN  IF shaped /\ Len(segs) = n THEN 1
        ELSE IF shaped /\ Len(segs) = n + 1 THEN 2
        ELSE 0

\* The body of the match loop for one directory entry and one target array: the
\* HookDef pushed, if any.
\* The body of the match loop without the platform check.
hookDefsOfAnyPlatform(name, stage, cmd, which) ==
    LET isCmd == cmd # <<>>
        segs == Split(name, ".")
        pnbArr == IF which = 2
                  THEN Split(segs[IF isCmd THEN 4 ELSE 3], "+")
                  ELSE <<>>
        binary == IF Len(pnbArr) > 1 /\ pnbArr[2] # <<>> THEN pnbArr[2] ELSE <<>>
    IN  IF matchedPattern(name, isCmd) = which /\ segs[2] = stage
        THEN <<[kind     |-> IF isCmd THEN "command" ELSE "global",
                additionalHookName |-> cmd,
                stage    |-> stage,
                platform |-> currentPlatform[1],
                binary   |-> binary,
                ext      |-> segs[Len(segs)],
                file     |-> Resolve(name)]>>
        ELSE <<>>

hookDefsOf(name, stage, cmd, which) ==
    LET isCmd == cmd # <<>>
        segs == Split(name, ".")
        pnbArr == IF which = 2
                  THEN Split(segs[IF isCmd THEN 4 ELSE 3], "+")
                  ELSE <<>>
        platforms == currentPlatform
        platformOk == \/ ~(Len(pnbArr) > 0 /\ pnbArr[1] # <<>>)
                      \/ \E i \in 1..Len(platforms) : platforms[i] = pnbArr[1]
        binary == IF Len(pnbArr) > 1 /\ pnbArr[2] # <<>> THEN pnbArr[2] ELSE <<>>
    IN  IF matchedPattern(name, isCmd) = which /\ segs[2] = stage /\ platformOk
        THEN <<[kind     |-> IF isCmd THEN "command" ELSE "global",
                additionalHookName |-> cmd,
                stage    |-> stage,
                platform |-> platforms[1],
                binary   |-> binary,
                ext      |-> segs[Len(segs)],
                file     |-> Resolve(name)]>>
        ELSE <<>>

RECURSIVE hooksOfPattern(_, _, _, _)
\* firstHooks (which = 1) or secondHooks (which = 2) after the loop over `names`
hooksOfPattern(names, stage, cmd, which) ==
    IF names = <<>> THEN <<>>
    ELSE hookDefsOf(Head(names), stage, cmd, which)
         \o hooksOfPattern(Tail(names), stage, cmd, which)

\* discoverHooks with [...secondHooks, ...firstHooks].
discoverHooksPlatformFirst(stage, cmd) ==
    hooksOfPattern(entries, stage, cmd, 2) \o hooksOfPattern(entries, stage, cmd, 1)

\* const hookDefs = [...firstHooks, ...secondHooks, ...thirdHooks]; filePatterns has
\* no third pattern, and what `name.match(undefined)` returns has no groups, so
\* that thirdHooks stays empty.
discoverHooks(stage, cmd) ==
    hooksOfPattern(entries, stage, cmd, 1) \o hooksOfPattern(entries, stage, cmd, 2)

---------------------------------------------------------------------------
(* Child processes. *)

\* How a child process ends: the 'exit' event with a code, the 'exit' event with a
\* signal (code null), or the 'error' event.
Outcomes ==
    {[how |-> "exit", code |-> c] : c \in 0..MaxExit}
        \cup {[how |-> "signal", code |-> 0], [how |-> "error", code |-> 0]}

\* runShellCommand resolving with 0 when the child did not end with a code.
resolvedCodeOrZero(o) == IF o.how = "exit" THEN o.code ELSE 0

\* The number runShellCommand resolves with.
resolvedCode(o) == IF o.how = "exit" THEN o.code ELSE 1

\* The hook started with the environment runHooks was given, nothing added.
hookEnvBare(env, stage, cmd, h) == env

\* The environment runHooks gives hook h.
hookEnv(env, stage, cmd, h) ==
    LET e1 == EnvSet(env, envKey(<<"HOOK_EVENT">>, getPrefix), stage)
        e2 == EnvSet(e1, envKey(<<"HOOK_COMMAND">>, getPrefix), cmd)
        e3 == EnvSet(e2, envKey(<<"HOOK_PLATFORM">>, getPrefix), h.platform)
        e4 == EnvSet(e3, envKey(<<"HOOK_BINARY">>, getPrefix), h.binary)
    IN  EnvSet(e4, envKey(<<"HOOK_FILE">>, getPrefix), h.file)

\* The hook file invoked directly whatever binary was recorded.
shellCommandDirect(h) == h.file

\* const shellCommand = h.binary ? `${h.binary} ${h.file}` : h.file
shellCommand(h) == IF h.binary # <<>> THEN h.binary \o <<" ">> \o h.file ELSE h.file

HookChild(stage, cmd, h, env) ==
    [kind |-> "hook", stage |-> stage, cmd |-> cmd, shell |-> shellCommand(h),
     bin |-> <<>>, args |-> <<>>, env |-> hookEnv(env, stage, cmd, h)]

\* runCompose(composeBin, args, { ...process.env })
ComposeChild(composeBin, args) ==
    [kind |-> "compose", stage |-> <<"delegate">>, cmd |-> <<>>, shell |-> <<>>,
     bin |-> composeBin, args |-> args, env |-> processEnv]

\* A call of runHooks(stage, cmd, env), as the trace records it.
HooksCall(stage, cmd) ==
    [kind |-> "runHooks", stage |-> stage, cmd |-> cmd, shell |-> <<>>,
     bin |-> <<>>, args |-> <<>>, env |-> EmptyEnv, how |-> "call", status |-> 0]

\* A child process that ended, as the trace records it.
Exited(child, o) ==
    [kind |-> child.kind, stage |-> child.stage, cmd |-> child.cmd,
     shell |-> child.shell, bin |-> child.bin, args |-> child.args,
     env |-> child.env, how |-> o.how, status |-> resolvedCode(o)]

---------------------------------------------------------------------------
(* The commands. *)

Commands == {"main", "cmp-clean", "cmp-clean-i-local", "cmp-clean-i-all"}

\* The cmp-clean* commands tearing down before they remove.
delegateStepsDownFirst(c) ==
    IF c = "main" THEN << <<>> >>
    ELSE << <<<<"down">>, <<"--volumes">>>>, <<<<"rm">>, <<"-fsv">>>> >>

\* The arguments each delegate step of a command appends to the common ones.
delegateSteps(c) ==
    IF c = "main" THEN << <<>> >>
    ELSE IF c = "cmp-clean"
         THEN << <<<<"rm">>, <<"-fsv">>>>, <<<<"down">>, <<"--volumes">>>> >>
    ELSE IF c = "cmp-clean-i-local"
         THEN << <<<<"rm">>, <<"-fsv">>>>,
                 <<<<"down">>, <<"--rmi">>, <<"local">>, <<"--volumes">>>> >>
    ELSE << <<<<"rm">>, <<"-fsv">>>>,
            <<<<"down">>, <<"--rmi">>, <<"all">>, <<"--volumes">>>> >>

\* No command returns after a failing delegate step.
neverExitsOnDelegateFailure(c) == FALSE

\* Every command returns after a failing delegate step.
alwaysExitsOnDelegateFailure(c) == TRUE

\* `if (code !== 0) return process.exit(...)` follows every runCompose of the
\* cmp-clean* commands, and none follows the runCompose of the main command.
exitsOnDelegateFailure(c) == c # "main"

\* Every command ending with what the global post-hooks returned.
finalStatusOfPostHooks(c, postCode, delegateCode) == postCode

\* The exit status once the global post-hooks returned postCode: the main command
\* sets process.exitCode = postCode !== 0 ? postCode : code, the cmp-clean* commands
\* exit with postCode when it is not zero and with 0 otherwise.
finalStatus(c, postCode, delegateCode) ==
    IF c = "main" THEN (IF postCode # 0 THEN postCode ELSE delegateCode)
    ELSE (IF postCode # 0 THEN postCode ELSE 0)

\* The global post-hooks run before the scoped ones.
nextStageGlobalPostFirst(p, any, more) ==
    IF p = "preGlobal" THEN (IF any THEN "preScoped" ELSE "delegate")
    ELSE IF p = "preScoped" THEN (IF more THEN p ELSE "delegate")
    ELSE IF p = "delegate" THEN "postGlobal"
    ELSE IF p = "postGlobal" THEN (IF any THEN "postScoped" ELSE "done")
    ELSE (IF more THEN p ELSE "done")

\* Where the callback goes when the stage at p is over without a failure: `any`
\* says that hook names were given, `more` that the loop over them has a next one.
nextStage(p, any, more) ==
    IF p = "preGlobal" THEN (IF any THEN "preScoped" ELSE "delegate")
    ELSE IF p = "preScoped" THEN (IF more THEN p ELSE "delegate")
    ELSE IF p = "delegate" THEN (IF any THEN "postScoped" ELSE "postGlobal")
    ELSE IF p = "postScoped" THEN (IF more THEN p ELSE "postGlobal")
    ELSE "done"

\* A failing hook does not end the loop of runHooks.
neverShortCircuits(status) == FALSE

\* if (code !== 0) { exitCode = code; break; } in runHooks, and the
\* `if (code !== 0) return process.exit(...)` of its callers
shortCircuits(status) == status # 0

HookStages == {"preGlobal", "preScoped", "postScoped", "postGlobal"}

stageOf(p) == IF p \in {"preGlobal", "preScoped"} THEN <<"pre">> ELSE <<"post">>

\* The second argument of the runHooks call at position p.
cmdOf(p) ==
    IF p \in {"preScoped", "postScoped"} THEN extracted.hooks[nameIdx] ELSE <<>>

---------------------------------------------------------------------------
(* The action callbacks, one step at a time. *)

\* prepare(composeArgs, options) and `if (!extracted) return`
Prepare ==
    /\ pc = "start"
    /\ LET p == prepare(composeArgs, options)
       IN  /\ detected' = p.detected
           /\ prefixFromOptions' = options.cmpPrefix
           /\ dotenvPrefixFromOptions' = options.cmpDotenvPrefix
           /\ processEnv' = p.processEnv
           /\ binCalls' = Append(binCalls, p.candidates)
           /\ probed' = probed \o p.probed
           /\ extracted' = p.result
           /\ pc' = IF p.ok THEN "preGlobal" ELSE "done"
           /\ exitCode' = IF p.ok THEN exitCode ELSE 1
    /\ UNCHANGED <<platform, command, options, composeArgs, fs, entries, probeStatus,
                   nameIdx, hooksList, hookIdx, stepIdx, running, awaiting, code, trace>>

\* The hook files a child process may create or remove, in scan order, and
\* those there when the command starts.
LiveDirectory ==
    <<<<"cmp", ".", "post", ".", "sh">>,
      <<"cmp", ".", "post", ".", "up", ".", "sh">>,
      <<"cmp", ".", "pre", ".", "sh">>>>
InitialDirectory ==
    <<<<"cmp", ".", "post", ".", "up", ".", "sh">>,
      <<"cmp", ".", "pre", ".", "sh">>>>

\* runHooks using a discovery made once, when the command started.
EnterHooksUpFront ==
    /\ pc \in HookStages
    /\ hookIdx = 0
    /\ hooksList' = hooksOfPattern(InitialDirectory, stageOf(pc), cmdOf(pc), 1)
                        \o hooksOfPattern(InitialDirectory, stageOf(pc), cmdOf(pc), 2)
    /\ hookIdx' = 1
    /\ trace' = Append(trace, HooksCall(stageOf(pc), cmdOf(pc)))
    /\ UNCHANGED <<platform, command, options, composeArgs, processEnv, fs, entries,
                   probeStatus, prefixFromOptions, dotenvPrefixFromOptions, detected,
                   binCalls, probed, extracted, pc, nameIdx, stepIdx, running,
                   awaiting, code, exitCode>>

\* runHooks is called: const hooks = discoverHooks(stage, cmd)
EnterHooks ==
    /\ pc \in HookStages
    /\ hookIdx = 0
    /\ hooksList' = discoverHooks(stageOf(pc), cmdOf(pc))
    /\ hookIdx' = 1
    /\ trace' = Append(trace, HooksCall(stageOf(pc), cmdOf(pc)))
    /\ UNCHANGED <<platform, command, options, composeArgs, processEnv, fs, entries,
                   probeStatus, prefixFromOptions, dotenvPrefixFromOptions, detected,
                   binCalls, probed, extracted, pc, nameIdx, stepIdx, running,
                   awaiting, code, exitCode>>

\* runHooks spawning every hook of the list without awaiting the one before.
SpawnHookWithoutAwait ==
    /\ pc \in HookStages
    /\ hookIdx \in 1..Len(hooksList)
    /\ HookChild(stageOf(pc), cmdOf(pc), hooksList[hookIdx], extracted.mergedEnv)
          \notin running
    /\ running' = running \cup {HookChild(stageOf(pc), cmdOf(pc), hooksList[hookIdx],
                                          extracted.mergedEnv)}
    /\ awaiting' = TRUE
    /\ hookIdx' = IF hookIdx < Len(hooksList) THEN hookIdx + 1 ELSE hookIdx
    /\ UNCHANGED <<platform, command, options, composeArgs, processEnv, fs, entries,
                   probeStatus, prefixFromOptions, dotenvPrefixFromOptions, detected,
                   binCalls, probed, extracted, pc, nameIdx, hooksList,
                   stepIdx, code, exitCode, trace>>

\* runHooks awaiting a promise that no child process will resolve.
SpawnHookNeverResolves ==
    /\ pc \in HookStages
    /\ ~awaiting
    /\ hookIdx \in 1..Len(hooksList)
    /\ awaiting' = TRUE
    /\ UNCHANGED <<platform, command, options, composeArgs, processEnv, fs, entries,
                   probeStatus, prefixFromOptions, dotenvPrefixFromOptions, detected,
                   binCalls, probed, extracted, pc, nameIdx, hooksList, hookIdx,
                   stepIdx, running, code, exitCode, trace>>

\* runHooks spawns the next hook and awaits it
SpawnHook ==
    /\ pc \in HookStages
    /\ ~awaiting
    /\ hookIdx \in 1..Len(hooksList)
    /\ running' = running \cup {HookChild(stageOf(pc), cmdOf(pc), hooksList[hookIdx],
                                          extracted.mergedEnv)}
    /\ awaiting' = TRUE
    /\ UNCHANGED <<platform, command, options, composeArgs, processEnv, fs, entries,
                   probeStatus, prefixFromOptions, dotenvPrefixFromOptions, detected,
                   binCalls, probed, extracted, pc, nameIdx, hooksList, hookIdx,
                   stepIdx, code, exitCode, trace>>

\* The hook ends.  A status other than zero leaves the loop of runHooks, which
\* returns it, and every caller then ends the process with it (after the global
\* post-hooks through finalStatus).
HookExit ==
    /\ pc \in HookStages
    /\ awaiting
    /\ \E child \in running, o \in Outcomes :
          LET status == resolvedCode(o)
          IN  /\ running' = running \ {child}
              /\ awaiting' = FALSE
              /\ trace' = Append(trace, Exited(child, o))
              /\ IF shortCircuits(status)
                 THEN /\ pc' = "done"
                      /\ exitCode' = IF pc = "postGlobal"
                                     THEN finalStatus(command, status, code)
                                     ELSE status
                      /\ code' = IF pc \in {"preGlobal", "preScoped"} THEN status ELSE code
                      /\ hookIdx' = hookIdx
                 ELSE /\ hookIdx' = hookIdx + 1
                      /\ UNCHANGED <<pc, exitCode, code>>
    /\ UNCHANGED <<platform, command, options, composeArgs, processEnv, fs, entries,
                   probeStatus, prefixFromOptions, dotenvPrefixFromOptions, detected,
                   binCalls, probed, extracted, nameIdx, hooksList, stepIdx>>

\* The loop of runHooks is over: it returns 0 and the callback goes on.
HooksReturn ==
    /\ pc \in HookStages
    /\ ~awaiting
    /\ hookIdx = Len(hooksList) + 1
    /\ hookIdx' = 0
    /\ hooksList' = <<>>
    /\ LET more == nameIdx < Len(extracted.hooks)
           any == Len(extracted.hooks) > 0
       IN  /\ pc' = nextStage(pc, any, more)
           /\ nameIdx' = IF pc \in {"preScoped", "postScoped"} /\ more
                         THEN nameIdx + 1 ELSE 1
    /\ code' = IF pc \in {"preGlobal", "preScoped"} THEN 0 ELSE code
    /\ exitCode' = IF pc = "postGlobal" THEN finalStatus(command, 0, code) ELSE exitCode
    /\ UNCHANGED <<platform, command, options, composeArgs, processEnv, fs, entries,
                   probeStatus, prefixFromOptions, dotenvPrefixFromOptions, detected,
                   binCalls, probed, extracted, stepIdx, running, awaiting, trace>>

\* runCompose spawns the next delegate step and awaits it
SpawnCompose ==
    /\ pc = "delegate"
    /\ ~awaiting
    /\ running' = running \cup
          {ComposeChild(extracted.composeBin,
                        extracted.args \o delegateSteps(command)[stepIdx])}
    /\ awaiting' = TRUE
    /\ UNCHANGED <<platform, command, options, composeArgs, processEnv, fs, entries,
                   probeStatus, prefixFromOptions, dotenvPrefixFromOptions, detected,
                   binCalls, probed, extracted, pc, nameIdx, hooksList, hookIdx,
                   stepIdx, code, exitCode, trace>>

\* The delegate step ends: code = its status.
ComposeExit ==
    /\ pc = "delegate"
    /\ awaiting
    /\ \E child \in running, o \in Outcomes :
          LET status == resolvedCode(o)
          IN  /\ running' = running \ {child}
              /\ awaiting' = FALSE
              /\ trace' = Append(trace, Exited(child, o))
              /\ code' = status
              /\ IF status # 0 /\ exitsOnDelegateFailure(command)
                 THEN pc' = "done" /\ exitCode' = status /\ stepIdx' = stepIdx
                 ELSE IF stepIdx < Len(delegateSteps(command))
                 THEN pc' = pc /\ exitCode' = exitCode /\ stepIdx' = stepIdx + 1
                 ELSE /\ pc' = nextStage(pc, Len(extracted.hooks) > 0, FALSE)
                      /\ exitCode' = exitCode
                      /\ stepIdx' = stepIdx
    /\ UNCHANGED <<platform, command, options, composeArgs, processEnv, fs, entries,
                   probeStatus, prefixFromOptions, dotenvPrefixFromOptions, detected,
                   binCalls, probed, extracted, nameIdx, hooksList, hookIdx>>

---------------------------------------------------------------------------
(* Inputs. *)

SeqsUpTo(S, n) == UNION {[1..k -> S] : k \in 0..n}

RECURSIVE SubListing(_, _, _)
\* The entries of `names` whose index is in `keep`, in their order.
SubListing(names, keep, i) ==
    IF i > Len(names) THEN <<>>
    ELSE (IF i \in keep THEN <<names[i]>> ELSE <<>>) \o SubListing(names, keep, i + 1)

K1 == <<"FOO">>
K2 == <<"BAR">>
K3 == <<"BAZ">>
BinKey == <<"CMPCAT_", "COMPOSE_", "BIN">>

NoOptions ==
    [profile |-> <<>>, disableProfileBasedDotenv |-> FALSE, cmpPrefix |-> <<>>,
     cmpDotenvPrefix |-> <<>>, cmpBin |-> <<>>, cmpHook |-> <<>>]

Absent == [exists |-> FALSE, readable |-> FALSE, content |-> EmptyEnv]
Unreadable == [exists |-> TRUE, readable |-> FALSE, content |-> EmptyEnv]
File(content) == [exists |-> TRUE, readable |-> TRUE, content |-> content]

\* The dotenv candidates of the default prefix for the profiles dev and prod.
DotenvNames ==
    {<<".env">>, <<".env", ".", "local">>,
     <<".env", ".", "dev">>, <<".env", ".", "dev", ".", "local">>,
     <<".env", ".", "prod">>, <<".env", ".", "prod", ".", "local">>}
DotenvPaths == {Resolve(n) : n \in DotenvNames}

FileStates ==
    {Absent, Unreadable, File(EnvSet(EmptyEnv, K1, <<"a">>)),
     File(EnvSet(EnvSet(EmptyEnv, K1, <<"b">>), K2, <<"a">>))}

InheritedEnvs ==
    {EmptyEnv, EnvSet(EnvSet(EnvSet(EmptyEnv, K1, <<"c">>), K2, <<"c">>), K3, <<"c">>)}

RawProfiles ==
    {<<"dev">>, <<"prod", ",", " ", "dev">>, <<"dev", ",", "prod">>}

AllCandidates ==
    {defaultBins[i] : i \in 1..Len(defaultBins)} \cup {<<"nerdctl", " ", "compose">>}

UserCandidates == {<<"nerdctl", " ", "compose">>, <<"docker-compose">>}

\* Values of the COMPOSE_BIN key; <<>> for a key that is not set.
EnvBinValues ==
    {<<>>, <<",">>, <<"podman-compose">>,
     <<"nerdctl", " ", "compose", ",", " ", "docker", " ", "compose">>}

InitProbeOutcomes == {0, 1, NullStatus}

HookNames == {<<"up">>, <<"down">>}

\* A hook directory in scan order.
HookFiles ==
    <<<<"cmp", ".", "post", ".", "sh">>,
      <<"cmp", ".", "post", ".", "up", ".", "sh">>,
      <<"cmp", ".", "pre", ".", "linux", ".", "sh">>,
      <<"cmp", ".", "pre", ".", "sh">>,
      <<"cmp", ".", "pre", ".", "up", ".", "sh">>>>

\* The state of everything that is not an input.
Fresh ==
    /\ prefixFromOptions = <<>>
    /\ dotenvPrefixFromOptions = <<>>
    /\ detected = [envFiles |-> <<>>, mergedEnv |-> EmptyEnv, profiles |-> <<>>]
    /\ binCalls = <<>>
    /\ probed = <<>>
    /\ extracted = [ok |-> FALSE, composeBin |-> <<>>, args |-> <<>>,
                    mergedEnv |-> EmptyEnv, hooks |-> <<>>]
    /\ pc = "start"
    /\ nameIdx = 1
    /\ hooksList = <<>>
    /\ hookIdx = 0
    /\ stepIdx = 1
    /\ running = {}
    /\ awaiting = FALSE
    /\ code = 0
    /\ exitCode = 0
    /\ trace = <<>>

\* Every disk of dotenv candidates (the last of them there with one content or
\* missing), every profile option, one command.
InitEnv ==
    /\ platform = <<"linux">>
    /\ command = "main"
    /\ \E prof \in SeqsUpTo(RawProfiles, MaxProfileArgs) :
          options = [NoOptions EXCEPT !.profile = prof]
    /\ composeArgs = <<<<"up">>>>
    /\ processEnv \in InheritedEnvs
    /\ fs \in [DotenvPaths -> FileStates]
    /\ fs[Resolve(<<".env", ".", "prod", ".", "local">>)]
          \in {Absent, File(EnvSet(EmptyEnv, K1, <<"a">>))}
    /\ entries = <<>>
    /\ probeStatus = [c \in AllCandidates |-> 0]
    /\ Fresh

\* Every user list, every declared list, every assignment of probe outcomes.
InitBin ==
    /\ platform = <<"linux">>
    /\ command = "main"
    /\ \E bins \in SeqsUpTo(UserCandidates, MaxUserBins) :
          options = [NoOptions EXCEPT !.cmpBin = bins]
    /\ composeArgs = <<<<"up">>>>
    /\ \E v \in EnvBinValues :
          processEnv = IF v = <<>> THEN EmptyEnv ELSE EnvSet(EmptyEnv, BinKey, v)
    /\ \E v \in {<<>>, <<"docker-compose">>} :
          fs = [f \in DotenvPaths |->
                  IF f = Resolve(<<".env">>) /\ v # <<>>
                  THEN File(EnvSet(EmptyEnv, BinKey, v)) ELSE Absent]
    /\ entries = <<>>
    /\ probeStatus \in [AllCandidates -> InitProbeOutcomes]
    /\ Fresh

\* The store directory and the key that names it.
StoreDirKey == <<"CMPCAT_", "STORE_DIR">>
StoreDir == Resolve(<<"store">>)
\* A directory on disk: it exists, and readFileSync throws for it.
Directory == [exists |-> TRUE, readable |-> FALSE, content |-> EmptyEnv]

\* Every command, every list of hook names, every hook directory; a store
\* directory is configured and exists.
Init ==
    /\ platform = <<"linux">>
    /\ command \in Commands
    /\ \E names \in SeqsUpTo(HookNames, MaxHookNames) :
          options = [NoOptions EXCEPT !.cmpHook = names]
    /\ composeArgs = <<<<"up">>>>
    /\ processEnv = EnvSet(EnvSet(EmptyEnv, K1, <<"c">>), StoreDirKey, <<"store">>)
    /\ fs = [f \in DotenvPaths \cup {StoreDir} |->
               IF f = Resolve(<<".env">>)
               THEN File(EnvSet(EmptyEnv, <<"COMPOSE_", "FILE">>, <<"a">>))
               ELSE IF f = StoreDir THEN Directory
               ELSE Absent]
    /\ \E keep \in SUBSET (1..Len(HookFiles)) : entries = SubListing(HookFiles, keep, 1)
    /\ \E s \in {0, 1} : probeStatus = [c \in AllCandidates |-> s]
    /\ Fresh

\* Passthrough arguments, one of them spelled like a flag of the wrapper.
PassArgs == {<<"up">>, <<"--profile">>}

\* --profile values: a name, a repeated name, two names, a blank part before a
\* name, a name with a path separator.
ProfileValues ==
    {<<"dev">>, <<"dev", ",", "dev">>, <<"prod", ",", " ", "dev">>,
     <<" ", ",", "dev">>, <<"..", "/", "x">>}

\* Prefixes that may be given with --cmp-prefix; <<>> when the option is absent.
PrefixValues == {<<>>, <<"X_">>}

\* An inherited environment with a project name and stale profile keys under
\* both prefixes.
StaleEnv ==
    [k \in {<<"CMPCAT_", "PROJECT_NAME">>, <<"X_", "PROJECT_NAME">>,
            <<"CMPCAT_", "PROFILES">>, <<"X_", "PROFILES">>,
            <<"CMPCAT_", "PROFILE_", "1">>, <<"CMPCAT_", "PROFILE_", "7">>,
            <<"X_", "PROFILE_", "7">>} |-> <<"old">>]

\* A base dotenv file that declares stale profile keys itself.
StaleFile ==
    File([k \in {<<"CMPCAT_", "PROFILE_", "8">>, <<"X_", "PROFILE_", "8">>,
                 <<"CMPCAT_", "PROFILES">>} |-> <<"file">>])

\* The files a blank profile name and the name ../x would stand for.
BlankProfileFile == Resolve(<<".env", ".">>)
PathProfileFile == Resolve(<<".env", ".", "..", "/", "x">>)
OddPaths == {BlankProfileFile, PathProfileFile}

\* Every passthrough list, every profile option, with and without a prefix
\* option, stale keys in the inherited environment and in the base file.
InitPrep ==
    /\ platform = <<"linux">>
    /\ command = "main"
    /\ \E prof \in SeqsUpTo(ProfileValues, MaxProfileValues), pre \in PrefixValues :
          options = [NoOptions EXCEPT !.profile = prof, !.cmpPrefix = pre]
    /\ composeArgs \in SeqsUpTo(PassArgs, MaxPassthrough)
    /\ processEnv \in {EmptyEnv, StaleEnv}
    /\ \E base \in {Absent, StaleFile}, dev \in {Absent, File(EnvSet(EmptyEnv, K1, <<"a">>))} :
          fs = [f \in DotenvPaths \cup OddPaths |->
                  IF f = Resolve(<<".env">>) THEN base
                  ELSE IF f = Resolve(<<".env", ".", "dev">>) THEN dev
                  ELSE IF f \in OddPaths THEN File(EnvSet(EmptyEnv, K2, <<"b">>))
                  ELSE Absent]
    /\ entries = <<>>
    /\ probeStatus = [c \in AllCandidates |-> 0]
    /\ Fresh

\* A hook directory in scan order: global and scoped hooks of both stages,
\* with and without a platform, for this and for other platforms.
HookDirectory ==
    <<<<"cmp", ".", "post", ".", "up", ".", "sh">>,
      <<"cmp", ".", "pre", ".", "down", ".", "sh">>,
      <<"cmp", ".", "pre", ".", "linux", ".", "sh">>,
      <<"cmp", ".", "pre", ".", "macos", "+", "sh", ".", "sh">>,
      <<"cmp", ".", "pre", ".", "sh">>,
      <<"cmp", ".", "pre", ".", "up", ".", "linux", ".", "sh">>,
      <<"cmp", ".", "pre", ".", "up", ".", "sh">>,
      <<"cmp", ".", "pre", ".", "up", ".", "win32", "+", "pwsh", ".", "ps1">>,
      <<"cmp", ".", "pre", ".", "win32", ".", "ps1">>>>

Platforms == {<<"linux">>, <<"darwin">>, <<"win32">>}

\* Every platform, every part of the hook directory, with and without the hook
\* name up, the default command.
InitHooks ==
    /\ platform \in Platforms
    /\ command = "main"
    /\ \E names \in {<<>>, <<<<"up">>>>} :
          options = [NoOptions EXCEPT !.cmpHook = names]
    /\ composeArgs = <<<<"up">>>>
    /\ processEnv = EmptyEnv
    /\ fs = [f \in DotenvPaths |-> Absent]
    /\ \E keep \in SUBSET (1..Len(HookDirectory)) :
          entries = SubListing(HookDirectory, keep, 1)
    /\ probeStatus = [c \in AllCandidates |-> 0]
    /\ Fresh

NextEnv == Prepare

NextBin == Prepare

Next ==
    \/ Prepare
    \/ EnterHooks
    \/ SpawnHook
    \/ HookExit
    \/ HooksReturn
    \/ SpawnCompose
    \/ ComposeExit

SpecEnv == InitEnv /\ [][NextEnv]_vars

SpecBin == InitBin /\ [][NextBin]_vars

NextPrep == Prepare

SpecPrep == InitPrep /\ [][NextPrep]_vars

Spec == Init /\ [][Next]_vars

SpecHooks == InitHooks /\ [][Next]_vars

\* While the wrapper awaits a child process, hook or delegate, that process
\* creates or removes hook files in the working directory: the next
\* readdirSync(cwd) finds the directory as the child left it.
ChildChangesDirectory ==
    /\ awaiting
    /\ running # {}
    /\ \E keep \in SUBSET (1..Len(LiveDirectory)) :
          /\ SubListing(LiveDirectory, keep, 1) # entries
          /\ entries' = SubListing(LiveDirectory, keep, 1)
    /\ UNCHANGED <<platform, command, options, composeArgs, processEnv, fs,
                   probeStatus, prefixFromOptions, dotenvPrefixFromOptions, detected,
                   binCalls, probed, extracted, pc, nameIdx, hooksList, hookIdx,
                   stepIdx, running, awaiting, code, exitCode, trace>>

\* The simple command with and without the hook name up, started in the
\* initial directory.
InitLive ==
    /\ platform = <<"linux">>
    /\ command = "main"
    /\ \E names \in {<<>>, <<<<"up">>>>} :
          options = [NoOptions EXCEPT !.cmpHook = names]
    /\ composeArgs = <<<<"up">>>>
    /\ processEnv = EmptyEnv
    /\ fs = [f \in DotenvPaths |-> Absent]
    /\ entries = InitialDirectory
    /\ probeStatus = [c \in AllCandidates |-> 0]
    /\ Fresh

NextLive ==
    \/ Prepare
    \/ EnterHooks
    \/ SpawnHook
    \/ HookExit
    \/ HooksReturn
    \/ SpawnCompose
    \/ ComposeExit
    \/ ChildChangesDirectory

SpecLive == InitLive /\ [][NextLive]_vars

\* Every command, with and without the hook name up, with and without a
\* compose binary that answers, started in the initial directory.
InitTermination ==
    /\ platform = <<"linux">>
    /\ command \in Commands
    /\ \E names \in {<<>>, <<<<"up">>>>} :
          options = [NoOptions EXCEPT !.cmpHook = names]
    /\ composeArgs = <<<<"up">>>>
    /\ processEnv = EmptyEnv
    /\ fs = [f \in DotenvPaths |-> Absent]
    /\ entries = InitialDirectory
    /\ \E s \in {0, 1} : probeStatus = [c \in AllCandidates |-> s]
    /\ Fresh

\* The callback runs on when it can: prepare is synchronous (spawnSync with a
\* timeout for every probe), and a continuation behind an await runs once its
\* promise is resolved.  Every hook and delegate process ends: the 'exit' or
\* the 'error' event resolves the promise the callback awaits.
Fairness ==
    /\ WF_vars(Prepare)
    /\ WF_vars(EnterHooks)
    /\ WF_vars(SpawnHook)
    /\ WF_vars(HookExit)
    /\ WF_vars(HooksReturn)
    /\ WF_vars(SpawnCompose)
    /\ WF_vars(ComposeExit)

SpecTermination == InitTermination /\ [][NextLive]_vars /\ Fairness

\* A hook directory in scan order with binary constraints: a binary without a
\* platform, a platform with an empty binary, a platform alias with a binary.
BinaryHookDirectory ==
    <<<<"cmp", ".", "post", ".", "+", "node", ".", "js">>,
      <<"cmp", ".", "pre", ".", "+", "node", ".", "js">>,
      <<"cmp", ".", "pre", ".", "linux", "+", ".", "sh">>,
      <<"cmp", ".", "pre", ".", "sh">>,
      <<"cmp", ".", "pre", ".", "up", ".", "sh">>,
      <<"cmp", ".", "pre", ".", "up", ".", "windows", "+", "pwsh", ".", "ps1">>,
      <<"cmp", ".", "pre", ".", "windows", ".", "ps1">>>>

\* Two platforms, every part of the hook directory, with and without the hook
\* name up and the prefix option, an effective environment of two keys.
\* The environment the wrapper is started in: FOO and BAZ, and a key of the
\* delegate.
InheritedHookEnv ==
    [k \in {K1, K3, <<"COMPOSE_", "PROJECT_NAME">>} |-> <<"c">>]

\* What .env declares: BAR, BAZ again, and two keys of the delegate.
HookEnvFile ==
    [k \in {K2, K3, <<"COMPOSE_", "FILE">>, <<"COMPOSE_", "PROJECT_NAME">>} |-> <<"a">>]

InitHookEnv ==
    /\ platform \in {<<"linux">>, <<"win32">>}
    /\ command = "main"
    /\ \E names \in {<<>>, <<<<"up">>>>}, pre \in PrefixValues :
          options = [NoOptions EXCEPT !.cmpHook = names, !.cmpPrefix = pre,
                                      !.profile = <<<<"dev">>>>]
    /\ composeArgs = <<<<"up">>>>
    /\ processEnv = InheritedHookEnv
    /\ fs = [f \in DotenvPaths |->
               IF f = Resolve(<<".env">>) THEN File(HookEnvFile) ELSE Absent]
    /\ \E keep \in SUBSET (1..Len(BinaryHookDirectory)) :
          entries = SubListing(BinaryHookDirectory, keep, 1)
    /\ probeStatus = [c \in AllCandidates |-> 0]
    /\ Fresh

SpecHookEnv == InitHookEnv /\ [][Next]_vars

\* Dotenv prefixes: the one given with --cmp-dotenv-prefix and the one given
\* with CMPCAT_ARG_DOTENV_PREFIX.
OptionDotenvPrefix == <<".cfg">>
EnvDotenvPrefix == <<".alt">>

\* Dotenv candidates under the three prefixes, for the profile dev.
PrefixedNames ==
    {<<".env">>, <<".env", ".", "local">>, <<".env", ".", "dev">>,
     <<".cfg">>, <<".cfg", ".", "local">>, <<".cfg", ".", "dev">>,
     <<".cfg", ".", "dev", ".", "local">>,
     <<".alt">>}
PrefixedPaths == {Resolve(n) : n \in PrefixedNames}

\* A dotenv file that gives FOO its own name as value.
NamedFile(f) == File(EnvSet(EmptyEnv, K1, f))

\* With and without the dotenv prefix option, the dotenv prefix variable, the
\* profile dev and the flag --disable-profile-based-dotenv, every disk of
\* candidates under the three prefixes.
InitDotenv ==
    /\ platform = <<"linux">>
    /\ command = "main"
    /\ \E prof \in {<<>>, <<<<"dev">>>>}, pre \in {<<>>, OptionDotenvPrefix},
          off \in BOOLEAN :
          options = [NoOptions EXCEPT !.profile = prof, !.cmpDotenvPrefix = pre,
                                      !.disableProfileBasedDotenv = off]
    /\ composeArgs = <<<<"up">>>>
    /\ processEnv \in {EmptyEnv,
                        EnvSet(EmptyEnv, <<"CMPCAT_ARG_DOTENV_PREFIX">>, EnvDotenvPrefix)}
    /\ \E there \in SUBSET PrefixedPaths :
          fs = [f \in PrefixedPaths |-> IF f \in there THEN NamedFile(f) ELSE Absent]
    /\ entries = <<>>
    /\ probeStatus = [c \in AllCandidates |-> 0]
    /\ Fresh

\* The prefix variable the README names and the one getPrefix reads.
DocumentedPrefixKey == <<"COMPOSE_CAT_PREFIX">>
ReadPrefixKey == <<"CMPCAT_ARG_PREFIX">>

\* With and without --cmp-prefix, either prefix variable and the profile dev,
\* every part of a directory of two global hooks.
InitPrefix ==
    /\ platform = <<"linux">>
    /\ command = "main"
    /\ \E prof \in {<<>>, <<<<"dev">>>>}, pre \in PrefixValues :
          options = [NoOptions EXCEPT !.profile = prof, !.cmpPrefix = pre]
    /\ composeArgs = <<<<"up">>>>
    /\ \E doc \in {<<>>, <<"Y_">>}, read \in {<<>>, <<"Z_">>} :
          processEnv =
              [k \in (IF doc # <<>> THEN {DocumentedPrefixKey} ELSE {})
                     \cup (IF read # <<>> THEN {ReadPrefixKey} ELSE {}) |->
                  IF k = DocumentedPrefixKey THEN doc ELSE read]
    /\ fs = [f \in DotenvPaths |-> Absent]
    /\ \E keep \in SUBSET {1, 2} :
          entries = SubListing(<<<<"cmp", ".", "post", ".", "sh">>,
                                 <<"cmp", ".", "pre", ".", "sh">>>>, keep, 1)
    /\ probeStatus = [c \in AllCandidates |-> 0]
    /\ Fresh

SpecPrefix == InitPrefix /\ [][Next]_vars

NextDotenv == Prepare

SpecDotenv == InitDotenv /\ [][NextDotenv]_vars

---------------------------------------------------------------------------
(* The merged environment (SpecEnv). *)

\* The j-th dotenv candidate in merge order for the profiles returned: the base
\* file, its .local file, then for each profile its file and its .local file.
MergeOrder(d, j) ==
    IF j = 1 THEN Resolve(DEFAULT_DOTENV_PREFIX)
    ELSE IF j = 2 THEN Resolve(DEFAULT_DOTENV_PREFIX \o <<".", "local">>)
    ELSE LET p == d.profiles[(j - 1) \div 2]
         IN  IF j % 2 = 1 THEN Resolve(DEFAULT_DOTENV_PREFIX \o <<".">> \o p)
             ELSE Resolve(DEFAULT_DOTENV_PREFIX \o <<".">> \o p \o <<".", "local">>)

\* The positions of the merge order whose file exists, can be read and defines k.
Defining(d, k) ==
    {j \in 1..(2 + 2 * Len(d.profiles)) :
        LET f == MergeOrder(d, j)
        IN  /\ f \in DOMAIN fs
            /\ fs[f].exists
            /\ fs[f].readable
            /\ k \in DOMAIN fs[f].content}

\* The largest member of a non-empty set of positions.
Last(S) == CHOOSE j \in S : \A i \in S : i <= j

\* C1: for every key k, the merged environment prepare computes holds the value
\* of the last readable existing file in merge order that defines k, the
\* inherited value of k when no such file defines it, and no other key.
C1_LastFileWins ==
    [][Prepare =>
         LET d == detected'
             keys == DOMAIN processEnv \cup
                     UNION {DOMAIN fs[f].content : f \in DOMAIN fs}
         IN  /\ DOMAIN d.mergedEnv \subseteq keys
             /\ \A k \in keys :
                   IF Defining(d, k) # {}
                   THEN /\ k \in DOMAIN d.mergedEnv
                        /\ d.mergedEnv[k] = fs[MergeOrder(d, Last(Defining(d, k)))].content[k]
                   ELSE IF k \in DOMAIN processEnv
                   THEN k \in DOMAIN d.mergedEnv /\ d.mergedEnv[k] = processEnv[k]
                   ELSE k \notin DOMAIN d.mergedEnv]_vars

\* prepare has run with two profiles; the base file, the file of the second
\* profile and the inherited environment each give FOO another value and the
\* profile file wins, an unreadable file lies in between, and BAZ, which no file
\* defines, keeps its inherited value.
C1_Witness ==
    /\ pc # "start"
    /\ Len(detected.profiles) = 2
    /\ Defining(detected, K1) = {1, 5}
    /\ Defining(detected, K3) = {}
    /\ fs[MergeOrder(detected, 1)].content[K1] = <<"b">>
    /\ fs[MergeOrder(detected, 5)].content[K1] = <<"a">>
    /\ fs[MergeOrder(detected, 3)] = Unreadable
    /\ EnvGet(processEnv, K1) = <<"c">>
    /\ EnvGet(detected.mergedEnv, K1) = <<"a">>
    /\ EnvGet(detected.mergedEnv, K3) = <<"c">>

---------------------------------------------------------------------------
(* The compose-binary resolver (SpecBin). *)

\* The positions of list L whose candidate answers the probe with status 0.
Succeeding(L) == {i \in 1..Len(L) : probeStatus[L[i]] = 0}

\* The smallest member of a non-empty set of positions.
First(S) == CHOOSE i \in S : \A j \in S : i <= j

\* C9: the resolver probes the candidates of the list it is given in order,
\* returns the first one whose probe exits with status 0 and probes none after
\* it; it returns no candidate exactly when every probe fails, and then it has
\* probed the whole list.
C9_FirstSuccessfulCandidate ==
    pc # "start" =>
        LET L == binCalls[1]
        IN  IF Succeeding(L) # {}
            THEN /\ probed = SubSeq(L, 1, First(Succeeding(L)))
                 /\ extracted.ok
                 /\ extracted.composeBin = L[First(Succeeding(L))]
            ELSE /\ probed = L
                 /\ ~extracted.ok
                 /\ extracted.composeBin = <<>>

\* The first candidate of a two-candidate list timed out, the second exited with
\* 0 and was returned, and another candidate would have succeeded as well.
C9_Witness ==
    /\ pc = "preGlobal"
    /\ Len(binCalls[1]) = 2
    /\ probeStatus[binCalls[1][1]] = NullStatus
    /\ probed = binCalls[1]
    /\ extracted.composeBin = binCalls[1][2]
    /\ binCalls[1][1] # binCalls[1][2]
    /\ probeStatus[<<"docker", " ", "compose">>] = 0

\* The list {prefix}COMPOSE_BIN declares in the merged environment: the parts of
\* its value between commas, trimmed, without the empty ones.
DeclaredBins == parseCsv(EnvGet(detected.mergedEnv, BinKey))

\* C10: exactly one candidate list is handed to the resolver: the user's list
\* when it is not empty, else the list {prefix}COMPOSE_BIN declares when that is
\* not empty, else the default list; no candidate outside it is probed, and when
\* every candidate of it fails the run ends with status 1 without a binary.
C10_OneCandidateList ==
    pc # "start" =>
        /\ Len(binCalls) = 1
        /\ binCalls[1] = IF Len(options.cmpBin) > 0 THEN options.cmpBin
                         ELSE IF Len(DeclaredBins) > 0 THEN DeclaredBins
                         ELSE defaultBins
        /\ \A i \in 1..Len(probed) : i <= Len(binCalls[1]) /\ probed[i] = binCalls[1][i]
        /\ (\A i \in 1..Len(binCalls[1]) : probeStatus[binCalls[1][i]] # 0)
              => ~extracted.ok /\ pc = "done" /\ exitCode = 1

\* No user list, a declared list of one candidate that fails: the resolver gave
\* up although the first default candidate would have answered.
C10_Witness ==
    /\ pc = "done"
    /\ options.cmpBin = <<>>
    /\ DeclaredBins = <<<<"podman-compose">>>>
    /\ binCalls = <<DeclaredBins>>
    /\ probed = DeclaredBins
    /\ probeStatus[<<"docker", " ", "compose">>] = 0
    /\ ~extracted.ok
    /\ exitCode = 1

---------------------------------------------------------------------------
(* The stages of a command (Spec). *)

\* The stage an event of the trace, or a running child, belongs to: 1 global
\* pre-hooks, 2 scoped pre-hooks, 3 delegate steps, 4 scoped post-hooks, 5 global
\* post-hooks.
Rank(e) ==
    IF e.kind = "compose" THEN 3
    ELSE IF e.stage = <<"pre">> THEN (IF e.cmd = <<>> THEN 1 ELSE 2)
    ELSE (IF e.cmd = <<>> THEN 5 ELSE 4)

Composite == command # "main"

IsCall(e) == e.kind = "runHooks"
IsHook(e) == e.kind = "hook"
IsDelegate(e) == e.kind = "compose"
IsScopedPostHook(e) == IsHook(e) /\ Rank(e) = 4
IsGlobalPostHook(e) == IsHook(e) /\ Rank(e) = 5

\* The events before position j that are runHooks calls of stage r.
CallsBefore(j, r) == {i \in 1..(j - 1) : IsCall(trace[i]) /\ Rank(trace[i]) = r}

\* The delegate steps that ended before position j.
DelegatesBefore(j) == {i \in 1..(j - 1) : IsDelegate(trace[i])}

\* Every stage before stage r was over before position j: runHooks was called
\* for the global pre-hooks, for every hook name, every delegate step ended.
EarlierStagesOver(j, r) ==
    /\ r >= 2 => Cardinality(CallsBefore(j, 1)) = 1
    /\ r >= 3 => Cardinality(CallsBefore(j, 2)) = Len(options.cmpHook)
    /\ r >= 4 => Cardinality(DelegatesBefore(j)) = Len(delegateSteps(command))
    /\ r >= 5 => Cardinality(CallsBefore(j, 4)) = Len(options.cmpHook)

\* C2: the stages occur in the order global pre-hooks, scoped pre-hooks (hook
\* names in the order given), delegate steps (in their fixed order), scoped
\* post-hooks (hook names in the order given), global post-hooks, done: nothing
\* of an earlier stage happens after something of a later stage, a stage begins
\* only when the stages before it are over, one child runs at a time, and
\* nothing runs when the command is done.
C2_StageOrder ==
    /\ \A i, j \in 1..Len(trace) : i < j => Rank(trace[i]) <= Rank(trace[j])
    /\ \A j \in 1..Len(trace) : EarlierStagesOver(j, Rank(trace[j]))
    /\ \A c \in running :
          /\ \A i \in 1..Len(trace) : Rank(trace[i]) <= Rank(c)
          /\ EarlierStagesOver(Len(trace) + 1, Rank(c))
    /\ Cardinality(running) <= 1
    /\ pc = "done" => running = {}
    /\ \A r \in {2, 4} :
          LET calls == SelectSeq(trace, LAMBDA e : IsCall(e) /\ Rank(e) = r)
          IN  /\ Len(calls) <= Len(options.cmpHook)
              /\ \A i \in 1..Len(calls) : calls[i].cmd = options.cmpHook[i]
    /\ \A j \in 1..Len(trace) :
          IsHook(trace[j]) =>
              \E i \in 1..(j - 1) :
                  /\ IsCall(trace[i])
                  /\ trace[i].stage = trace[j].stage /\ trace[i].cmd = trace[j].cmd
                  /\ \A m \in (i + 1)..(j - 1) : ~IsCall(trace[m])
    /\ LET steps == SelectSeq(trace, IsDelegate)
       IN  /\ Len(steps) <= Len(delegateSteps(command))
           /\ \A i \in 1..Len(steps) :
                 steps[i].args = extracted.args \o delegateSteps(command)[i]

\* A composite command with two hook names is done with status 0 after hooks of
\* all four hook stages and both delegate steps ran.
C2_Witness ==
    /\ pc = "done"
    /\ exitCode = 0
    /\ Composite
    /\ options.cmpHook = <<<<"down">>, <<"up">>>>
    /\ \A r \in {1, 2, 4, 5} : \E i \in 1..Len(trace) : IsHook(trace[i]) /\ Rank(trace[i]) = r
    /\ Cardinality(DelegatesBefore(Len(trace) + 1)) = 2

\* C3: when a global or scoped pre-hook ends with a status s other than 0,
\* nothing runs after it (no pre-hook, no delegate step, no post-hook) and the
\* command is done with exit status s.
C3_PreHookFailureEndsCommand ==
    \A i \in 1..Len(trace) :
        IsHook(trace[i]) /\ trace[i].stage = <<"pre">> /\ trace[i].status # 0
            => /\ i = Len(trace)
               /\ running = {}
               /\ pc = "done"
               /\ exitCode = trace[i].status

\* The first global pre-hook succeeded, the scoped pre-hook of `up` failed with
\* status 2 and the command is done with 2, though post-hooks are installed.
C3_Witness ==
    /\ pc = "done"
    /\ exitCode = 2
    /\ Len(trace) >= 4
    /\ IsHook(trace[Len(trace)]) /\ Rank(trace[Len(trace)]) = 2
    /\ trace[Len(trace)].status = 2
    /\ \E i \in 1..Len(trace) : IsHook(trace[i]) /\ Rank(trace[i]) = 1
    /\ \E i \in 1..Len(entries) : entries[i] = <<"cmp", ".", "post", ".", "sh">>

\* C4: in a composite command, when a delegate step ends with a status s other
\* than 0, no delegate step runs after it and the command is done with exit
\* status s.
C4_DelegateFailureEndsSteps ==
    Composite =>
        \A i \in 1..Len(trace) :
            IsDelegate(trace[i]) /\ trace[i].status # 0
                => /\ \A j \in (i + 1)..Len(trace) : ~IsDelegate(trace[j])
                   /\ \A c \in running : ~IsDelegate(c)
                   /\ pc = "done"
                   /\ exitCode = trace[i].status

\* cmp-clean-i-all: the pre-hooks succeeded, `rm -fsv` was killed by a signal
\* (status 1), `down` never ran and the command is done with 1.
C4_Witness ==
    /\ command = "cmp-clean-i-all"
    /\ pc = "done"
    /\ exitCode = 1
    /\ Cardinality(DelegatesBefore(Len(trace) + 1)) = 1
    /\ IsDelegate(trace[Len(trace)])
    /\ trace[Len(trace)].how = "signal"
    /\ \E i \in 1..Len(trace) : IsHook(trace[i]) /\ Rank(trace[i]) = 2

\* C5: in a composite command that is done after a delegate step ended with a
\* status other than 0, runHooks was called for the global post-hooks after
\* that step.
C5_GlobalPostHooksAfterFailedStep ==
    Composite /\ pc = "done" =>
        \A i \in 1..Len(trace) :
            IsDelegate(trace[i]) /\ trace[i].status # 0
                => \E j \in (i + 1)..Len(trace) : IsCall(trace[j]) /\ Rank(trace[j]) = 5

\* C6: when a delegate step ended with a status d other than 0 and a global
\* post-hook that ran after it ended with a status h other than 0, the command
\* is done with exit status d.
C6_DelegateStatusTakesPrecedence ==
    pc = "done" =>
        \A i, j \in 1..Len(trace) :
            /\ i < j
            /\ IsDelegate(trace[i]) /\ trace[i].status # 0
            /\ IsGlobalPostHook(trace[j]) /\ trace[j].status # 0
            => exitCode = trace[i].status

\* C7 as the specification states it: in every command, no scoped post-hook runs
\* after a delegate step that ended with a status other than 0.
C7_NoScopedPostHookAfterFailedStep ==
    \A i \in 1..Len(trace) :
        IsDelegate(trace[i]) /\ trace[i].status # 0
            => /\ \A j \in (i + 1)..Len(trace) : ~IsScopedPostHook(trace[j])
               /\ \A c \in running : ~IsScopedPostHook(c)

\* C7, amended: in every composite command, no scoped post-hook runs after a
\* delegate step that ended with a status other than 0.
C7_CompositeNoScopedPostHookAfterFailedStep ==
    Composite =>
        \A i \in 1..Len(trace) :
            IsDelegate(trace[i]) /\ trace[i].status # 0
                => /\ \A j \in (i + 1)..Len(trace) : ~IsScopedPostHook(trace[j])
                   /\ \A c \in running : ~IsScopedPostHook(c)

\* cmp-clean --cmp-hook up with cmp.post.up.sh installed: `rm -fsv` succeeded,
\* `down --volumes` ended with status 2, and the command is done without having
\* run the scoped post-hook.
C7_Witness ==
    /\ command = "cmp-clean"
    /\ pc = "done"
    /\ options.cmpHook = <<<<"up">>>>
    /\ \E i \in 1..Len(entries) : entries[i] = <<"cmp", ".", "post", ".", "up", ".", "sh">>
    /\ Cardinality(DelegatesBefore(Len(trace) + 1)) = 2
    /\ IsDelegate(trace[Len(trace)])
    /\ trace[Len(trace)].status = 2
    /\ trace[Len(trace) - 1].status = 0

\* C8: when a scoped post-hook ends with a status s other than 0, no scoped and
\* no global post-hook runs after it and the command is done with exit status s.
C8_ScopedPostHookFailureEndsCommand ==
    \A i \in 1..Len(trace) :
        IsScopedPostHook(trace[i]) /\ trace[i].status # 0
            => /\ i = Len(trace)
               /\ running = {}
               /\ pc = "done"
               /\ exitCode = trace[i].status

\* The main command with two hook names and a global post-hook installed: the
\* delegate ended with status 1, the scoped post-hook of the first name then
\* ended with status 2, and the command is done with 2.
C8_Witness ==
    /\ command = "main"
    /\ pc = "done"
    /\ exitCode = 2
    /\ options.cmpHook = <<<<"up">>, <<"down">>>>
    /\ \E i \in 1..Len(entries) : entries[i] = <<"cmp", ".", "post", ".", "sh">>
    /\ IsScopedPostHook(trace[Len(trace)])
    /\ trace[Len(trace)].status = 2
    /\ \E i \in 1..Len(trace) : IsDelegate(trace[i]) /\ trace[i].status = 1

\* C11: when no candidate of the list handed to the resolver passes its probe,
\* the command is done with exit status 1 and nothing was run: runHooks was
\* never called, no hook and no delegate step was spawned.
C11_NoBinaryNothingRuns ==
    (pc # "start" /\ Succeeding(binCalls[1]) = {})
        => /\ pc = "done"
           /\ exitCode = 1
           /\ trace = <<>>
           /\ running = {}
           /\ ~extracted.ok

\* A composite command with a hook name and pre-hooks installed, every default
\* candidate failing its probe: the command is done with 1 and an empty trace.
C11_Witness ==
    /\ pc = "done"
    /\ exitCode = 1
    /\ Composite
    /\ options.cmpHook = <<<<"up">>>>
    /\ \E i \in 1..Len(entries) : entries[i] = <<"cmp", ".", "pre", ".", "sh">>
    /\ probed = defaultBins
    /\ trace = <<>>

\* The detected-binary key under the default prefix.
DetectedKey == envKey(<<"DETECTED_", "COMPOSE_", "BIN">>, DEFAULT_PREFIX)

\* C12: once a binary is resolved, the detected-binary key equals the selected
\* candidate in the environment of every delegate step and of every hook
\* process, running or ended.
C12_DetectedBinaryInEveryChildEnv ==
    extracted.ok =>
        /\ \A i \in 1..Len(trace) :
              IsHook(trace[i]) \/ IsDelegate(trace[i])
                  => EnvGet(trace[i].env, DetectedKey) = extracted.composeBin
        /\ \A c \in running : EnvGet(c.env, DetectedKey) = extracted.composeBin

---------------------------------------------------------------------------
(* The configuration file list and the delegate's arguments. *)

\* The dotenv candidates of the profiles returned, in merge order.
Candidates(d) == [j \in 1..(2 + 2 * Len(d.profiles)) |-> MergeOrder(d, j)]

\* The positions of list fl whose file can be read and defines k.
DefiningIn(fl, k) ==
    {i \in 1..Len(fl) : fs[fl[i]].readable /\ k \in DOMAIN fs[fl[i]].content}

\* C13: the list of configuration files prepare gets from the merger is the list
\* of candidates (base, base.local, then per profile in the order given its file
\* and its .local file) with the files that do not exist left out, and its
\* order is the merge order: the merged value of a key is the one of the last
\* listed file that defines it.
C13_ListedFilesExistInMergeOrder ==
    pc # "start" =>
        /\ detected.envFiles =
              SelectSeq(Candidates(detected), LAMBDA f : f \in DOMAIN fs /\ fs[f].exists)
        /\ \A i \in 1..Len(detected.envFiles) : fs[detected.envFiles[i]].exists
        /\ \A k \in {K1, K2} :
              DefiningIn(detected.envFiles, k) # {} =>
                  EnvGet(detected.mergedEnv, k) =
                      fs[detected.envFiles[Last(DefiningIn(detected.envFiles, k))]].content[k]

\* Profiles prod then dev: of the six candidates .env, .env.prod.local and
\* .env.dev are missing, and the three others are listed in candidate order.
C13_Witness ==
    /\ pc # "start"
    /\ detected.profiles = <<<<"prod">>, <<"dev">>>>
    /\ ~fs[Resolve(<<".env">>)].exists
    /\ detected.envFiles = <<Resolve(<<".env", ".", "local">>),
                             Resolve(<<".env", ".", "prod">>),
                             Resolve(<<".env", ".", "dev", ".", "local">>)>>

\* C14: the argument vector prepare builds for the delegate is one --profile
\* flag per active profile in order, then one --env-file flag per listed
\* configuration file in order, then the passthrough arguments as they were
\* given: none of them dropped, moved or put before a flag of the wrapper.
C14_ArgumentVector ==
    extracted.ok =>
        LET n == Len(detected.profiles)
            m == Len(detected.envFiles)
            args == extracted.args
        IN  /\ Len(args) = 2 * n + 2 * m + Len(composeArgs)
            /\ \A i \in 1..n :
                  args[2 * i - 1] = <<"--profile">> /\ args[2 * i] = detected.profiles[i]
            /\ \A i \in 1..m :
                  /\ args[2 * n + 2 * i - 1] = <<"--env-file">>
                  /\ args[2 * n + 2 * i] = detected.envFiles[i]
            /\ \A i \in 1..Len(composeArgs) : args[2 * n + 2 * m + i] = composeArgs[i]

\* Profiles prod and dev, the files .env and .env.dev, and the passthrough
\* arguments `--profile up`, which stay last and in their order.
C14_Witness ==
    /\ extracted.ok
    /\ composeArgs = <<<<"--profile">>, <<"up">>>>
    /\ extracted.args =
          <<<<"--profile">>, <<"prod">>, <<"--profile">>, <<"dev">>,
            <<"--env-file">>, Resolve(<<".env">>),
            <<"--env-file">>, Resolve(<<".env", ".", "dev">>),
            <<"--profile">>, <<"up">>>>

\* The prefix in force: the --cmp-prefix value, else the default (the inputs
\* never set CMPCAT_ARG_PREFIX).
ActivePrefix == Or(options.cmpPrefix, DEFAULT_PREFIX)

\* C15: when no project-name option is among the arguments and the effective
\* environment defines {prefix}PROJECT_NAME, the argument vector for the
\* delegate holds a project-name flag (-p or --project-name) followed by that
\* value.
C15_ProjectNameForwarded ==
    (extracted.ok /\ envKey(<<"PROJECT_NAME">>, ActivePrefix) \in DOMAIN extracted.mergedEnv)
        => \E i \in 1..(Len(extracted.args) - 1) :
              /\ extracted.args[i] \in {<<"-p">>, <<"--project-name">>}
              /\ extracted.args[i + 1] =
                    extracted.mergedEnv[envKey(<<"PROJECT_NAME">>, ActivePrefix)]

---------------------------------------------------------------------------
(* Profiles and their bookkeeping keys (SpecPrep). *)

\* The names a --profile value spells out, one per occurrence, blank parts
\* left out; written down by hand for the values of ProfileValues.
NamesIn(v) ==
    CASE v = <<"dev">> -> <<<<"dev">>>>
      [] v = <<"dev", ",", "dev">> -> <<<<"dev">>, <<"dev">>>>
      [] v = <<"prod", ",", " ", "dev">> -> <<<<"prod">>, <<"dev">>>>
      [] v = <<" ", ",", "dev">> -> <<<<"dev">>>>
      [] v = <<"..", "/", "x">> -> <<<<"..", "/", "x">>>>

RECURSIVE SuppliedNames(_)
\* The names the --profile values spell out, in the order given.
SuppliedNames(values) ==
    IF values = <<>> THEN <<>>
    ELSE NamesIn(Head(values)) \o SuppliedNames(Tail(values))

\* The keys of env that start with {prefix}PROFILE_.
IndexedKeys(env) ==
    {k \in DOMAIN env : StartsWith(k, ActivePrefix \o <<"PROFILE_">>)}

NoDuplicates(s) == \A i, j \in 1..Len(s) : i # j => s[i] # s[j]

\* C16 as the specification states it: the active profile list holds each name
\* once, and there are as many indexed profile keys as distinct names.
C16_ProfilesDeduplicated ==
    extracted.ok =>
        /\ NoDuplicates(detected.profiles)
        /\ Cardinality(IndexedKeys(extracted.mergedEnv)) =
              Cardinality({detected.profiles[i] : i \in 1..Len(detected.profiles)})

\* C16, amended: the active profile list holds every supplied name once per
\* occurrence, in the order supplied, and so do the joined profile-list key and
\* the indexed profile keys of the effective and of the process environment:
\* there are as many indexed keys as names supplied, duplicates counted.
C16_ProfilesKeptPerOccurrence ==
    extracted.ok =>
        LET ps == SuppliedNames(options.profile)
        IN  /\ detected.profiles = ps
            /\ \A env \in {extracted.mergedEnv, processEnv} :
                  /\ ps # <<>> =>
                        Split(EnvGet(env, ActivePrefix \o <<"PROFILES">>), ",") = ps
                  /\ \A i \in 1..Len(ps) :
                        EnvGet(env, ActivePrefix \o <<"PROFILE_">> \o NumStr(i)) = ps[i]
                  /\ Cardinality(IndexedKeys(env)) = Len(ps)

\* --profile dev,dev --profile "prod, dev": four active profiles, dev three
\* times, and four indexed keys.
C16_Witness ==
    /\ extracted.ok
    /\ options.profile = <<<<"dev", ",", "dev">>, <<"prod", ",", " ", "dev">>>>
    /\ detected.profiles = <<<<"dev">>, <<"dev">>, <<"prod">>, <<"dev">>>>
    /\ EnvGet(extracted.mergedEnv, ActivePrefix \o <<"PROFILES">>) =
          <<"dev", ",", "dev", ",", "prod", ",", "dev">>
    /\ EnvGet(processEnv, ActivePrefix \o <<"PROFILE_", "4">>) = <<"dev">>
    /\ Cardinality(IndexedKeys(extracted.mergedEnv)) = 4

\* C17: after preparation with the active profiles p1..pn under prefix P, in
\* the effective environment and in the process environment alike: P+PROFILES
\* is p1,...,pn joined by commas, and absent when n = 0; P+PROFILE_i is pi for
\* every i in 1..n; and no other key starts with P+PROFILE_, whatever the
\* inherited environment and the merged files declared.
C17_ProfileBookkeepingKeys ==
    extracted.ok =>
        LET ps == detected.profiles
            P == ActivePrefix
        IN  \A env \in {extracted.mergedEnv, processEnv} :
                /\ IF ps = <<>>
                   THEN P \o <<"PROFILES">> \notin DOMAIN env
                   ELSE /\ P \o <<"PROFILES">> \in DOMAIN env
                        /\ env[P \o <<"PROFILES">>] = Join(ps, ",")
                /\ IndexedKeys(env) = {P \o <<"PROFILE_">> \o NumStr(i) : i \in 1..Len(ps)}
                /\ \A i \in 1..Len(ps) : env[P \o <<"PROFILE_">> \o NumStr(i)] = ps[i]

\* Default prefix, profiles prod and dev, an inherited environment with
\* CMPCAT_PROFILE_1 and CMPCAT_PROFILE_7 of an earlier run and a base file that
\* declares CMPCAT_PROFILE_8: only the keys 1 and 2 are left, with the new names.
C17_Witness ==
    /\ extracted.ok
    /\ options.cmpPrefix = <<>>
    /\ fs[Resolve(<<".env">>)] = StaleFile
    /\ EnvGet(processEnv, <<"CMPCAT_", "PROJECT_NAME">>) = <<"old">>
    /\ detected.profiles = <<<<"prod">>, <<"dev">>>>
    /\ <<"CMPCAT_", "PROFILE_", "8">> \in DOMAIN detected.mergedEnv
    /\ <<"CMPCAT_", "PROFILE_", "7">> \in DOMAIN detected.mergedEnv
    /\ IndexedKeys(extracted.mergedEnv) =
          {<<"CMPCAT_", "PROFILE_", "1">>, <<"CMPCAT_", "PROFILE_", "2">>}
    /\ IndexedKeys(processEnv) = IndexedKeys(extracted.mergedEnv)
    /\ EnvGet(processEnv, <<"CMPCAT_", "PROFILES">>) = <<"prod", ",", "dev">>

HasSeparator(name) == \E i \in 1..Len(name) : name[i] \in {"/", "\\"}

\* C18 as the specification states it: no active profile is blank or holds a
\* path separator.
C18_OddProfileNamesDropped ==
    extracted.ok =>
        \A i \in 1..Len(detected.profiles) :
            Trim(detected.profiles[i]) # <<>> /\ ~HasSeparator(detected.profiles[i])

\* C18, amended: a supplied name that is blank after trimming is dropped (no
\* active profile, no --profile flag, no bookkeeping key and no configuration
\* file stand for it), while a name with a path separator is kept like any
\* other: it is active, has its flag and its indexed key, and its file is listed.
C18_BlankDroppedSeparatorKept ==
    extracted.ok =>
        LET ps == detected.profiles
        IN  /\ Len(ps) = Len(SuppliedNames(options.profile))
            /\ \A i \in 1..Len(ps) :
                  /\ Trim(ps[i]) = ps[i] /\ ps[i] # <<>>
                  /\ extracted.args[2 * i] = ps[i]
                  /\ extracted.mergedEnv[ActivePrefix \o <<"PROFILE_">> \o NumStr(i)] = ps[i]
            /\ \A i \in 1..Len(detected.envFiles) : detected.envFiles[i] # BlankProfileFile
            /\ K2 \in DOMAIN detected.mergedEnv
                  => \E i \in 1..Len(detected.envFiles) : detected.envFiles[i] = PathProfileFile
            /\ \A j \in 1..Len(options.profile) :
                  HasSeparator(options.profile[j]) =>
                      /\ \E i \in 1..Len(ps) : ps[i] = options.profile[j]
                      /\ \E i \in 1..Len(detected.envFiles) :
                            detected.envFiles[i] = PathProfileFile

\* --profile " ,dev" --profile ../x: the blank part is gone, dev and ../x are
\* active, and the file .env.../x is listed and merged while .env. is not.
C18_Witness ==
    /\ extracted.ok
    /\ options.profile = <<<<" ", ",", "dev">>, <<"..", "/", "x">>>>
    /\ detected.profiles = <<<<"dev">>, <<"..", "/", "x">>>>
    /\ detected.envFiles[Len(detected.envFiles)] = PathProfileFile
    /\ EnvGet(detected.mergedEnv, K2) = <<"b">>
    /\ extracted.args[4] = <<"..", "/", "x">>

---------------------------------------------------------------------------
(* Hook discovery (SpecHooks). *)

\* The segments of the file name of a discovered hook.
Segments(file) == Split(SubSeq(file, Len(Cwd) + 1, Len(file)), ".")

\* The hooks in sight: those of the runHooks call under way, and those of the
\* hook processes running or ended, with the stage and hook name asked for.
HooksInSight ==
    {[file |-> hooksList[i].file, stage |-> hooksList[i].stage,
      cmd |-> hooksList[i].additionalHookName] : i \in 1..Len(hooksList)}
    \cup
    {[file |-> EnvGet(e.env, envKey(<<"HOOK_FILE">>, DEFAULT_PREFIX)),
      stage |-> e.stage, cmd |-> e.cmd] :
        e \in {c \in {trace[i] : i \in 1..Len(trace)} \cup running : IsHook(c)}}

\* C19: a hook discovered or run for the hook name H is a file whose third
\* segment, the command-scope segment, is H.
C19_ScopedHooksCarryTheHookName ==
    \A h \in HooksInSight :
        h.cmd # <<>> => Segments(h.file)[3] = h.cmd

PlatformNames == {<<"win32">>, <<"windows">>, <<"darwin">>, <<"macos">>, <<"linux">>}

\* The names of the platform the process runs on.
Aliases ==
    IF platform = <<"win32">> THEN {<<"win32">>, <<"windows">>}
    ELSE IF platform = <<"darwin">> THEN {<<"darwin">>, <<"macos">>}
    ELSE {platform}

\* The platforms a hook file name is constrained to: the platform names found
\* in front of the `+` of a segment between the stage and the extension.
DeclaredPlatforms(file) ==
    LET segs == Segments(file)
    IN  {Split(segs[i], "+")[1] : i \in 3..(Len(segs) - 1)} \cap PlatformNames

\* C20: a hook discovered or run has the stage asked for as its stage segment,
\* and if its file name is constrained to a platform, that is a name of the
\* platform the process runs on.
C20_StageAndPlatformMatch ==
    \A h \in HooksInSight :
        /\ Segments(h.file)[2] = h.stage
        /\ DeclaredPlatforms(h.file) \subseteq Aliases

---------------------------------------------------------------------------
(* The order of the hooks of one discovery (SpecHooks). *)

\* The position of a discovered hook in the directory scan.
ScanIndex(h) == CHOOSE i \in 1..Len(entries) : Resolve(entries[i]) = h.file

\* The number of segments of the shape without a platform/binary segment:
\* cmp.<stage>.<ext>, and cmp.<stage>.<cmd>.<ext> when a hook name is asked for.
PlainShape(cmd) == IF cmd # <<>> THEN 4 ELSE 3

\* The discovery matched h under the shape with a platform/binary segment.
HasPlatformSegment(h) ==
    Len(Segments(h.file)) = PlainShape(h.additionalHookName) + 1

\* The hook processes that ended since runHooks was called last.
EndedInThisCall ==
    LET calls == {i \in 1..Len(trace) : IsCall(trace[i])}
    IN  IF calls = {} THEN <<>> ELSE SubSeq(trace, Last(calls) + 1, Len(trace))

\* C21: in the result of one discovery every hook matched under the shape
\* without a platform/binary segment comes before every hook matched under the
\* shape with one, hooks of the same shape are in directory-scan order, and the
\* hooks are run in the order of the result; every global pre-hook runs before
\* every scoped pre-hook.
C21_DiscoveryOrder ==
    /\ \A i, j \in 1..Len(hooksList) :
          i < j =>
              /\ HasPlatformSegment(hooksList[i]) => HasPlatformSegment(hooksList[j])
              /\ HasPlatformSegment(hooksList[i]) = HasPlatformSegment(hooksList[j])
                    => ScanIndex(hooksList[i]) < ScanIndex(hooksList[j])
    /\ hookIdx >= 1 =>
          /\ Len(EndedInThisCall) <= Len(hooksList)
          /\ \A i \in 1..Len(EndedInThisCall) :
                EnvGet(EndedInThisCall[i].env, envKey(<<"HOOK_FILE">>, DEFAULT_PREFIX))
                    = hooksList[i].file
          /\ \A c \in running :
                EnvGet(c.env, envKey(<<"HOOK_FILE">>, DEFAULT_PREFIX))
                    = hooksList[Len(EndedInThisCall) + 1].file
    /\ \A i, j \in 1..Len(trace) :
          (IsHook(trace[i]) /\ Rank(trace[i]) = 1 /\ IsHook(trace[j]) /\ Rank(trace[j]) = 2)
              => i < j
    /\ \A c \in running :
          Rank(c) = 1 => \A i \in 1..Len(trace) : ~(IsHook(trace[i]) /\ Rank(trace[i]) = 2)

\* On Linux with the hook name up: the global pre-hooks cmp.pre.sh and
\* cmp.pre.linux.sh ran in that order although the scan finds them the other way
\* round, and the discovery for `up` now under way lists cmp.pre.up.sh before
\* cmp.pre.up.linux.sh, which the scan finds first.
C21_Witness ==
    /\ pc = "preScoped"
    /\ Len(hooksList) >= 2
    /\ hooksList[Len(hooksList) - 1].file = Resolve(<<"cmp", ".", "pre", ".", "up", ".", "sh">>)
    /\ hooksList[Len(hooksList)].file =
          Resolve(<<"cmp", ".", "pre", ".", "up", ".", "linux", ".", "sh">>)
    /\ ScanIndex(hooksList[Len(hooksList)]) < ScanIndex(hooksList[Len(hooksList) - 1])
    /\ Len(trace) >= 3
    /\ trace[2].shell = Resolve(<<"cmp", ".", "pre", ".", "sh">>)
    /\ trace[3].shell = Resolve(<<"cmp", ".", "pre", ".", "linux", ".", "sh">>)

---------------------------------------------------------------------------
(* What a hook is executed with (SpecHookEnv). *)

\* The platform/binary segment of a file under the shape the discovery for hook
\* name cmd matches it with; <<>> when that shape has none.
MatchedSegment(file, cmd) ==
    LET segs == Segments(file)
    IN  IF Len(segs) = PlainShape(cmd) + 1 THEN segs[PlainShape(cmd)] ELSE <<>>

\* The part of that segment in front of the first `+`.
MatchedPlatform(file, cmd) == Split(MatchedSegment(file, cmd), "+")[1]

\* The part of that segment behind the first `+`; <<>> when there is none.
MatchedBinary(file, cmd) ==
    LET parts == Split(MatchedSegment(file, cmd), "+")
    IN  IF Len(parts) > 1 THEN parts[2] ELSE <<>>

\* The hook processes running or ended.
HookChildren == {c \in {trace[i] : i \in 1..Len(trace)} \cup running : IsHook(c)}

HookVariable(c, key) == EnvGet(c.env, envKey(key, ActivePrefix))

\* C23: the hook-platform variable of every hook process is the platform part
\* matched in the name of its file, and empty when the name has no platform
\* part.
C23_HookPlatformIsTheMatchedPlatform ==
    \A c \in HookChildren :
        HookVariable(c, <<"HOOK_PLATFORM">>) =
            MatchedPlatform(HookVariable(c, <<"HOOK_FILE">>), c.cmd)

\* The five hook variables under the prefix in force.
HookKeys ==
    {envKey(k, ActivePrefix) :
        k \in {<<"HOOK_EVENT">>, <<"HOOK_COMMAND">>, <<"HOOK_PLATFORM">>,
               <<"HOOK_BINARY">>, <<"HOOK_FILE">>}}

\* s ends with t.
EndsWith(s, t) == Len(t) <= Len(s) /\ SubSeq(s, Len(s) - Len(t) + 1, Len(s)) = t

---------------------------------------------------------------------------
(* The delegate invocations of a command (Spec). *)

\* The delegate steps that ended, in order.
StepsEnded == SelectSeq(trace, IsDelegate)

\* The argument vectors of the delegate steps started so far, in order: of
\* those that ended and of the one running.
StepArgs ==
    [i \in 1..Len(StepsEnded) |-> StepsEnded[i].args]
        \o (IF \E c \in running : IsDelegate(c)
            THEN <<(CHOOSE c \in running : IsDelegate(c)).args>>
            ELSE <<>>)

\* What the second delegate step of a composite command is asked to do.
TearDown(c) ==
    IF c = "cmp-clean" THEN <<<<"down">>, <<"--volumes">>>>
    ELSE IF c = "cmp-clean-i-local"
         THEN <<<<"down">>, <<"--rmi">>, <<"local">>, <<"--volumes">>>>
    ELSE <<<<"down">>, <<"--rmi">>, <<"all">>, <<"--volumes">>>>

\* A pre-hook ended with a status other than 0.
PreHookFailed ==
    \E i \in 1..Len(trace) :
        IsHook(trace[i]) /\ trace[i].stage = <<"pre">> /\ trace[i].status # 0

\* C25: a composite command starts at most two delegate steps: first the
\* common argument vector followed by `rm -fsv`, then, only after the first
\* ended with status 0, the common argument vector followed by `down --volumes`
\* (cmp-clean), `down --rmi local --volumes` (cmp-clean-i-local) or
\* `down --rmi all --volumes` (cmp-clean-i-all).  The simple command starts at
\* most one delegate step, with the common argument vector alone, and exactly
\* one has ended when it is done after a resolved binary and pre-hooks that
\* all succeeded.
C25_DelegateInvocations ==
    /\ \A i \in 1..Len(StepArgs) : extracted.ok
    /\ Composite =>
          /\ Len(StepArgs) <= 2
          /\ Len(StepArgs) >= 1 => StepArgs[1] = extracted.args \o <<<<"rm">>, <<"-fsv">>>>
          /\ Len(StepArgs) = 2 =>
                /\ StepArgs[2] = extracted.args \o TearDown(command)
                /\ StepsEnded[1].status = 0
    /\ ~Composite =>
          /\ Len(StepArgs) <= 1
          /\ Len(StepArgs) = 1 => StepArgs[1] = extracted.args
          /\ (pc = "done" /\ extracted.ok /\ ~PreHookFailed) => Len(StepsEnded) = 1

\* cmp-clean-i-local is done with status 0 after `rm -fsv` and
\* `down --rmi local --volumes`, each behind the --env-file flag and the
\* passthrough argument.
C25_Witness ==
    /\ command = "cmp-clean-i-local"
    /\ pc = "done"
    /\ exitCode = 0
    /\ Len(StepsEnded) = 2
    /\ StepsEnded[1].args =
          <<<<"--env-file">>, Resolve(<<".env">>), <<"up">>, <<"rm">>, <<"-fsv">>>>
    /\ StepsEnded[2].args =
          <<<<"--env-file">>, Resolve(<<".env">>), <<"up">>,
            <<"down">>, <<"--rmi">>, <<"local">>, <<"--volumes">>>>

---------------------------------------------------------------------------
(* The store directory (Spec). *)

\* C26: when a composite command is done after both delegate steps ended with
\* status 0, the store directory named by {prefix}STORE_DIR is gone from the
\* host; and as long as a delegate step has ended with a status other than 0,
\* the directory is still there.
C26_StoreDirectoryDeleted ==
    (Composite /\ EnvGet(extracted.mergedEnv, StoreDirKey) # <<>>) =>
        /\ (/\ pc = "done"
            /\ Len(StepsEnded) = 2
            /\ \A i \in 1..2 : StepsEnded[i].status = 0)
              => ~fs[StoreDir].exists
        /\ (\E i \in 1..Len(StepsEnded) : StepsEnded[i].status # 0)
              => fs[StoreDir].exists

---------------------------------------------------------------------------
(* Exit statuses (Spec). *)

\* Every hook that ended did so with status 0.
EveryHookSucceeded == \A i \in 1..Len(trace) : IsHook(trace[i]) => trace[i].status = 0

\* C27: when the simple command is done after a binary was resolved and every
\* hook that ran ended with status 0, its exit status is the status of its one
\* delegate step, zero or not.
C27_SimpleCommandRelaysDelegateStatus ==
    (command = "main" /\ pc = "done" /\ extracted.ok /\ EveryHookSucceeded)
        => /\ Len(StepsEnded) = 1
           /\ exitCode = StepsEnded[1].status

\* The simple command with the hook name up: hooks of all four stages ended
\* with 0, the delegate step with 2, and the command is done with 2.
C27_Witness ==
    /\ command = "main"
    /\ pc = "done"
    /\ options.cmpHook = <<<<"up">>>>
    /\ EveryHookSucceeded
    /\ \A r \in {1, 2, 4, 5} : \E i \in 1..Len(trace) : IsHook(trace[i]) /\ Rank(trace[i]) = r
    /\ Len(StepsEnded) = 1
    /\ StepsEnded[1].status = 2
    /\ exitCode = 2

---------------------------------------------------------------------------
(* One child process at a time (Spec). *)

\* C28: at most one hook or delegate process is running at any time: a child
\* is started only when none is running, and the only other change to the set
\* of running children is that the one running ends and is recorded as ended.
C28_OneChildAtATime ==
    [][/\ Cardinality(running) <= 1
       /\ Cardinality(running') <= 1
       /\ running' # running =>
             \/ /\ running = {}
                /\ Cardinality(running') = 1
                /\ ~awaiting /\ awaiting'
                /\ trace' = trace
             \/ /\ Cardinality(running) = 1
                /\ running' = {}
                /\ awaiting /\ ~awaiting'
                /\ Len(trace') = Len(trace) + 1
                /\ \E c \in running :
                      /\ trace'[Len(trace')].kind = c.kind
                      /\ trace'[Len(trace')].shell = c.shell
                      /\ trace'[Len(trace')].args = c.args]_vars

\* cmp-clean with the hook name up: two pre-hooks and the step `rm -fsv` have
\* ended and the step `down --volumes` is the one child running.
C28_Witness ==
    /\ command = "cmp-clean"
    /\ Len(StepsEnded) = 1
    /\ Cardinality({i \in 1..Len(trace) : IsHook(trace[i])}) >= 2
    /\ Cardinality(running) = 1
    /\ \A c \in running : IsDelegate(c)
    /\ awaiting

---------------------------------------------------------------------------
(* Children that end without an exit code (Spec). *)

\* The child was ended by a signal, or could not be spawned.
Abnormal(e) == e.how \in {"signal", "error"}

\* C29: a hook or delegate process that was ended by a signal or could not be
\* spawned is given a status other than 0 and is treated as any failure: after
\* such a hook, and after such a delegate step of a composite command, nothing
\* runs and the command is done with that status; after such a delegate step
\* of the simple command the command is never done with status 0.
C29_AbnormalEndIsFailure ==
    \A i \in 1..Len(trace) :
        ((IsHook(trace[i]) \/ IsDelegate(trace[i])) /\ Abnormal(trace[i])) =>
            /\ trace[i].status # 0
            /\ (IsHook(trace[i]) \/ Composite) =>
                  /\ i = Len(trace)
                  /\ running = {}
                  /\ pc = "done"
                  /\ exitCode = trace[i].status
            /\ pc = "done" => exitCode # 0

\* The simple command with a pre-hook that ended with 0: the delegate process
\* could not be spawned, the global post-hook then ended with 0, and the command
\* is done with 1.
C29_Witness ==
    /\ command = "main"
    /\ pc = "done"
    /\ exitCode = 1
    /\ Len(StepsEnded) = 1
    /\ StepsEnded[1].how = "error"
    /\ EveryHookSucceeded
    /\ IsGlobalPostHook(trace[Len(trace)])
    /\ \E i \in 1..Len(trace) : IsHook(trace[i]) /\ Rank(trace[i]) = 1

---------------------------------------------------------------------------
(* The dotenv prefix option (SpecDotenv). *)

\* The candidates under dotenv prefix X for the profiles ps, in merge order.
CandidatesUnder(X, ps) ==
    <<Resolve(X), Resolve(X \o <<".", "local">>)>> \o profileCandidates(X, ps)

\* C30: when --cmp-dotenv-prefix X is given, the configuration files listed
\* and merged by that invocation are those of X, X.local and, per profile p,
\* X.p and X.p.local that exist, whatever CMPCAT_ARG_DOTENV_PREFIX says and
\* whatever files of the default prefix .env exist.
C30_DotenvPrefixOptionApplies ==
    (pc # "start" /\ options.cmpDotenvPrefix # <<>>) =>
        /\ detected.envFiles =
              SelectSeq(CandidatesUnder(options.cmpDotenvPrefix, detected.profiles),
                        LAMBDA f : f \in DOMAIN fs /\ fs[f].exists)
        /\ detected.envFiles # <<>> =>
              EnvGet(detected.mergedEnv, K1) = detected.envFiles[Len(detected.envFiles)]

---------------------------------------------------------------------------
(* The prefix of the derived keys (SpecPrefix). *)

\* The prefix as documented: the --cmp-prefix value, else the value of
\* COMPOSE_CAT_PREFIX, else CMP_.
DocumentedPrefix ==
    Or(options.cmpPrefix, Or(EnvGet(processEnv, DocumentedPrefixKey), <<"CMP_">>))

\* C31: the derived keys of an invocation carry the --cmp-prefix value when
\* given, otherwise the value of COMPOSE_CAT_PREFIX when set, otherwise CMP_:
\* the detected-binary key and the profile keys of the process environment and
\* the hook variables of every hook process are found under that prefix.
C31_DocumentedPrefixInForce ==
    extracted.ok =>
        /\ EnvGet(processEnv, envKey(<<"DETECTED_", "COMPOSE_", "BIN">>, DocumentedPrefix))
              = extracted.composeBin
        /\ detected.profiles # <<>> =>
              /\ EnvGet(processEnv, DocumentedPrefix \o <<"PROFILES">>)
                    = Join(detected.profiles, ",")
              /\ EnvGet(extracted.mergedEnv, DocumentedPrefix \o <<"PROFILE_", "1">>)
                    = detected.profiles[1]
        /\ \A c \in HookChildren :
              /\ envKey(<<"HOOK_EVENT">>, DocumentedPrefix) \in DOMAIN c.env
              /\ envKey(<<"HOOK_FILE">>, DocumentedPrefix) \in DOMAIN c.env

---------------------------------------------------------------------------
(* The flag --disable-profile-based-dotenv (SpecDotenv). *)

DotenvPrefixes == {DEFAULT_DOTENV_PREFIX, OptionDotenvPrefix, EnvDotenvPrefix}

\* The files a profile of the list ps stands for, under any prefix.
ProfileFiles(ps) ==
    UNION {{Resolve(X \o <<".">> \o ps[i]), Resolve(X \o <<".">> \o ps[i] \o <<".", "local">>)} :
              X \in DotenvPrefixes, i \in 1..Len(ps)}

\* The base files of prefix X that exist, in merge order.
BaseFilesThere(X) ==
    SelectSeq(<<Resolve(X), Resolve(X \o <<".", "local">>)>>,
              LAMBDA f : f \in DOMAIN fs /\ fs[f].exists)

\* C32: when --disable-profile-based-dotenv is given, no file of a profile is
\* listed, merged or handed to the delegate with --env-file, whether or not it
\* exists: the file list is the list of the base files that exist, and the
\* merged environment is the inherited one with the base files merged into it;
\* the profiles themselves stay active.
C32_NoProfileFilesWhenDisabled ==
    (pc # "start" /\ options.disableProfileBasedDotenv) =>
        /\ \A i \in 1..Len(detected.envFiles) :
              detected.envFiles[i] \notin ProfileFiles(detected.profiles)
        /\ \A i \in 1..Len(extracted.args) :
              extracted.args[i] \notin ProfileFiles(detected.profiles)
        /\ \E X \in DotenvPrefixes :
              /\ detected.envFiles = BaseFilesThere(X)
              /\ IF BaseFilesThere(X) = <<>>
                 THEN K1 \notin DOMAIN detected.mergedEnv
                 ELSE EnvGet(detected.mergedEnv, K1) =
                          BaseFilesThere(X)[Len(BaseFilesThere(X))]
        /\ detected.profiles = normalizeProfiles(options.profile)

\* The flag with the profile dev: .env, .env.local and .env.dev exist, the two
\* base files are listed, FOO has the value of .env.local, and dev is active.
C32_Witness ==
    /\ pc # "start"
    /\ options.disableProfileBasedDotenv
    /\ detected.profiles = <<<<"dev">>>>
    /\ fs[Resolve(<<".env", ".", "dev">>)].exists
    /\ detected.envFiles = <<Resolve(<<".env">>), Resolve(<<".env", ".", "local">>)>>
    /\ EnvGet(detected.mergedEnv, K1) = Resolve(<<".env", ".", "local">>)
    /\ extracted.args[2] = <<"dev">>

---------------------------------------------------------------------------
(* Files that cannot be read (SpecEnv). *)

\* The positions of the merge order whose file exists and cannot be read.
UnreadablePositions(d) ==
    {j \in 1..(2 + 2 * Len(d.profiles)) :
        LET f == MergeOrder(d, j)
        IN  f \in DOMAIN fs /\ fs[f].exists /\ ~fs[f].readable}

\* The disk with every unreadable file taken away.
WithoutUnreadable ==
    [f \in DOMAIN fs |-> IF fs[f].exists /\ ~fs[f].readable THEN Absent ELSE fs[f]]

\* The value key k gets from the disk `disk`: that of the last file in merge
\* order that is there and defines k, else the inherited one.
ValueOver(disk, d, k) ==
    LET defs == {j \in 1..(2 + 2 * Len(d.profiles)) :
                    /\ MergeOrder(d, j) \in DOMAIN disk
                    /\ disk[MergeOrder(d, j)].exists
                    /\ k \in DOMAIN disk[MergeOrder(d, j)].content}
    IN  IF defs # {} THEN disk[MergeOrder(d, Last(defs))].content[k]
        ELSE EnvGet(processEnv, k)

\* C33: a configuration file that exists and cannot be read contributes no
\* key: merging it leaves any merge target as it was, the merged environment
\* is the one the same disk without the unreadable files gives (so the files
\* after such a file are merged all the same), and the command goes on to
\* resolve the binary instead of failing.
C33_UnreadableFileContributesNothing ==
    (pc # "start" /\ UnreadablePositions(detected) # {}) =>
        /\ \A j \in UnreadablePositions(detected) :
              \A base \in {EmptyEnv, processEnv, detected.mergedEnv} :
                  mergeEnv(base, MergeOrder(detected, j)) = base
        /\ \A k \in {K1, K2, K3} :
              EnvGet(detected.mergedEnv, k) = ValueOver(WithoutUnreadable, detected, k)
        /\ Len(binCalls) = 1
        /\ probed # <<>>
        /\ extracted.ok
        /\ pc = "preGlobal"
        /\ exitCode = 0

\* Profile dev with an inherited FOO: .env gives FOO the value b, .env.local
\* cannot be read, .env.dev gives FOO the value a; FOO is a, BAR is the one of
\* .env, and the binary was resolved.
C33_Witness ==
    /\ pc = "preGlobal"
    /\ detected.profiles = <<<<"dev">>>>
    /\ EnvGet(processEnv, K1) = <<"c">>
    /\ fs[Resolve(<<".env">>)].readable
    /\ EnvGet(fs[Resolve(<<".env">>)].content, K1) = <<"b">>
    /\ fs[Resolve(<<".env", ".", "local">>)] = Unreadable
    /\ fs[Resolve(<<".env", ".", "dev">>)].readable
    /\ EnvGet(fs[Resolve(<<".env", ".", "dev">>)].content, K1) = <<"a">>
    /\ ~fs[Resolve(<<".env", ".", "dev", ".", "local">>)].exists
    /\ EnvGet(detected.mergedEnv, K1) = <<"a">>
    /\ EnvGet(detected.mergedEnv, K2) = <<"a">>
    /\ extracted.composeBin = <<"docker", " ", "compose">>

---------------------------------------------------------------------------
(* The global post-hooks of the simple command (Spec). *)

\* A scoped post-hook ended with a status other than 0.
ScopedPostHookFailed ==
    \E i \in 1..Len(trace) : IsScopedPostHook(trace[i]) /\ trace[i].status # 0

\* C34: when the simple command is done after its delegate step ended, with
\* whatever status, and no scoped post-hook ended with a status other than 0,
\* runHooks was called for the global post-hooks after the delegate step, and
\* the first global post-hook of the directory, if there is one, ran next.
C34_GlobalPostHooksAfterDelegate ==
    (command = "main" /\ pc = "done" /\ Len(StepsEnded) = 1 /\ ~ScopedPostHookFailed) =>
        \E j \in 1..Len(trace) :
            /\ IsCall(trace[j])
            /\ Rank(trace[j]) = 5
            /\ DelegatesBefore(j) # {}
            /\ Cardinality(CallsBefore(j, 4)) = Len(options.cmpHook)
            /\ discoverHooks(<<"post">>, <<>>) # <<>> =>
                  /\ j < Len(trace)
                  /\ IsGlobalPostHook(trace[j + 1])
                  /\ trace[j + 1].shell = shellCommand(discoverHooks(<<"post">>, <<>>)[1])

\* The simple command with the hook name up: the delegate step ended with 2,
\* a scoped post-hook then ended with 0, and a global post-hook ran after it.
C34_Witness ==
    /\ command = "main"
    /\ pc = "done"
    /\ Len(StepsEnded) = 1
    /\ StepsEnded[1].status = 2
    /\ \E i \in 1..Len(trace) : IsScopedPostHook(trace[i]) /\ trace[i].status = 0
    /\ IsGlobalPostHook(trace[Len(trace)])
    /\ \E i \in 1..Len(trace) :
          IsDelegate(trace[i]) /\ \A k \in 1..Len(trace) : IsGlobalPostHook(trace[k]) => k > i

---------------------------------------------------------------------------
(* One call of runHooks (SpecHooks). *)

\* The hooks that ended between the runHooks call at position j of the trace
\* and the next call or delegate step.
EndedInCall(j) ==
    LET later == {i \in (j + 1)..Len(trace) : ~IsHook(trace[i])}
    IN  SubSeq(trace, j + 1, IF later = {} THEN Len(trace) ELSE First(later) - 1)

\* The call at position j is over: another call or a delegate step follows it,
\* or the command is done.
CallOver(j) == pc = "done" \/ \E i \in (j + 1)..Len(trace) : ~IsHook(trace[i])

\* C35: within one call of runHooks the hooks run one after the other in the
\* order of the discovery result; a hook runs only after every hook before it
\* ended with status 0, so none runs after the first status other than 0; the
\* call then returns that status, which ends the command with it; and a call
\* returns 0, after which the command goes on, exactly when every hook of the
\* result ended with status 0 or the result is empty.
C35_HooksOfOneCall ==
    \A j \in 1..Len(trace) :
        IsCall(trace[j]) =>
            LET ended == EndedInCall(j)
                found == discoverHooks(trace[j].stage, trace[j].cmd)
                failed == {i \in 1..Len(ended) : ended[i].status # 0}
            IN  /\ Len(ended) <= Len(found)
                /\ \A i \in 1..Len(ended) : ended[i].shell = shellCommand(found[i])
                /\ \A i \in failed : i = Len(ended)
                /\ failed # {} =>
                      /\ j + Len(ended) = Len(trace)
                      /\ running = {}
                      /\ pc = "done"
                      /\ exitCode = ended[Len(ended)].status
                /\ (j + Len(ended) = Len(trace)) =>
                      \A c \in running :
                          IsHook(c) =>
                              /\ failed = {}
                              /\ Len(ended) < Len(found)
                              /\ c.shell = shellCommand(found[Len(ended) + 1])
                /\ (CallOver(j) /\ failed = {}) =>
                      /\ Len(ended) = Len(found)
                      /\ (pc = "done" /\ j + Len(ended) = Len(trace)) =>
                            /\ Rank(trace[j]) = 5
                            /\ Len(StepsEnded) = 1
                            /\ exitCode = StepsEnded[1].status

\* On linux with the hook name up: the call for the global pre-hooks ran
\* cmp.pre.sh with status 0 and returned, and in the call for the hook name up
\* cmp.pre.up.sh ended with 2, cmp.pre.up.linux.sh, which was discovered after
\* it, did not run, and the command is done with 2.
C35_Witness ==
    /\ platform = <<"linux">>
    /\ pc = "done"
    /\ exitCode = 2
    /\ Len(trace) = 4
    /\ IsCall(trace[1])
    /\ trace[2].shell = Resolve(<<"cmp", ".", "pre", ".", "sh">>)
    /\ trace[2].status = 0
    /\ IsCall(trace[3])
    /\ trace[4].shell = Resolve(<<"cmp", ".", "pre", ".", "up", ".", "sh">>)
    /\ trace[4].status = 2
    /\ Len(discoverHooks(<<"pre">>, <<"up">>)) = 2
    /\ discoverHooks(<<"pre">>, <<"up">>)[2].file =
          Resolve(<<"cmp", ".", "pre", ".", "up", ".", "linux", ".", "sh">>)

---------------------------------------------------------------------------
(* The environment of the delegate (SpecHookEnv). *)

\* The delegate processes started so far.
DelegateChildren == {c \in {trace[i] : i \in 1..Len(trace)} \cup running : IsDelegate(c)}

\* The keys the wrapper keeps its books in: the profile keys and the
\* detected-binary key under the prefix in force.
BookkeepingKeys(env) ==
    {k \in DOMAIN env : StartsWith(k, ActivePrefix \o <<"PROFILE_">>)}
        \cup {ActivePrefix \o <<"PROFILES">>,
              envKey(<<"DETECTED_", "COMPOSE_", "BIN">>, ActivePrefix)}

IsComposeKey(k) == StartsWith(k, <<"COMPOSE_">>)

\* C36: every delegate process gets the process environment, which is the
\* inherited environment except for the profile keys and the detected-binary
\* key under the prefix in force, which the wrapper sets, and for the keys
\* starting with COMPOSE_ of the effective environment, which have their
\* effective value; a value a configuration file declares under any other key
\* is not in the environment of the delegate and is in that of every hook.
C36_DelegateEnvironment ==
    \A c \in DelegateChildren :
        /\ c.env = processEnv
        /\ \A k \in (DOMAIN c.env \cup DOMAIN InheritedHookEnv) \ BookkeepingKeys(c.env) :
              ~IsComposeKey(k) =>
                  /\ k \in DOMAIN c.env
                  /\ k \in DOMAIN InheritedHookEnv
                  /\ c.env[k] = InheritedHookEnv[k]
        /\ EnvGet(c.env, ActivePrefix \o <<"PROFILES">>) = Join(detected.profiles, ",")
        /\ \A i \in 1..Len(detected.profiles) :
              EnvGet(c.env, ActivePrefix \o <<"PROFILE_">> \o NumStr(i)) = detected.profiles[i]
        /\ EnvGet(c.env, envKey(<<"DETECTED_", "COMPOSE_", "BIN">>, ActivePrefix))
              = extracted.composeBin
        /\ \A k \in DOMAIN extracted.mergedEnv :
              IsComposeKey(k) => k \in DOMAIN c.env /\ c.env[k] = extracted.mergedEnv[k]
        /\ \A k \in DOMAIN c.env :
              IsComposeKey(k) => k \in DOMAIN extracted.mergedEnv \cup DOMAIN InheritedHookEnv
        /\ \A k \in DOMAIN HookEnvFile :
              ~IsComposeKey(k) =>
                  /\ EnvGet(c.env, k) = EnvGet(InheritedHookEnv, k)
                  /\ \A h \in HookChildren : EnvGet(h.env, k) = HookEnvFile[k]

\* With --cmp-prefix X_ and the profile dev: a pre-hook ran with BAR and BAZ
\* as .env declares them, and the delegate was then started with BAZ as
\* inherited, without BAR, with COMPOSE_FILE and COMPOSE_PROJECT_NAME as .env
\* declares them, and with X_PROFILES, X_PROFILE_1 and the detected binary.
C36_Witness ==
    /\ options.cmpPrefix = <<"X_">>
    /\ \E h \in HookChildren :
          /\ h.stage = <<"pre">>
          /\ EnvGet(h.env, K2) = <<"a">>
          /\ EnvGet(h.env, K3) = <<"a">>
    /\ \E c \in DelegateChildren :
          /\ K2 \notin DOMAIN c.env
          /\ EnvGet(c.env, K3) = <<"c">>
          /\ EnvGet(c.env, K1) = <<"c">>
          /\ EnvGet(c.env, <<"COMPOSE_", "FILE">>) = <<"a">>
          /\ EnvGet(c.env, <<"COMPOSE_", "PROJECT_NAME">>) = <<"a">>
          /\ EnvGet(c.env, <<"X_", "PROFILES">>) = <<"dev">>
          /\ EnvGet(c.env, <<"X_", "PROFILE_", "1">>) = <<"dev">>
          /\ EnvGet(c.env, <<"X_", "DETECTED_", "COMPOSE_", "BIN">>) = <<"docker", " ", "compose">>

---------------------------------------------------------------------------
(* The exit status of every command (Spec). *)

\* Every stage of the command was executed: runHooks was called for the global
\* pre-hooks, for every hook name before and after the delegate steps, and for
\* the global post-hooks, and every delegate step ended.
EveryStageExecuted ==
    /\ EarlierStagesOver(Len(trace) + 1, 5)
    /\ Cardinality(CallsBefore(Len(trace) + 1, 5)) = 1

\* The hooks and delegate steps that ran, as positions of the trace.
Ran == {i \in 1..Len(trace) : IsHook(trace[i]) \/ IsDelegate(trace[i])}

\* C37: when a command is done, its exit status is 0 exactly when a binary was
\* resolved, every stage was executed and every hook and delegate step that
\* ran ended with status 0; an exit status other than 0 is 1 when no binary
\* was resolved, and nothing ran then, and is otherwise the status other than
\* 0 of a hook or a delegate step that ran.
C37_ExitStatus ==
    pc = "done" =>
        /\ exitCode = 0 <=>
              /\ extracted.ok
              /\ EveryStageExecuted
              /\ \A i \in Ran : trace[i].status = 0
        /\ exitCode # 0 =>
              \/ ~extracted.ok /\ exitCode = 1 /\ trace = <<>>
              \/ extracted.ok /\ \E i \in Ran : trace[i].status = exitCode
        /\ ~extracted.ok => exitCode = 1

\* cmp-clean with the hook name up: every stage was executed, `rm -fsv` and
\* `down --volumes` ended with 0, a scoped post-hook ended with 0, the global
\* post-hook with 2, and the command is done with 2.
C37_Witness ==
    /\ command = "cmp-clean"
    /\ pc = "done"
    /\ options.cmpHook = <<<<"up">>>>
    /\ EveryStageExecuted
    /\ Len(StepsEnded) = 2
    /\ \E i \in 1..Len(trace) : IsScopedPostHook(trace[i]) /\ trace[i].status = 0
    /\ IsGlobalPostHook(trace[Len(trace)])
    /\ trace[Len(trace)].status = 2
    /\ \A i \in Ran : i < Len(trace) => trace[i].status = 0
    /\ exitCode = 2

---------------------------------------------------------------------------
(* Discovery when a stage starts (SpecLive). *)

\* The directory entry `name` is a hook of stage `stage` for the hook name cmd
\* on this platform: it has the plain shape, or the shape with a platform/binary
\* segment whose platform part is empty or names this platform.
HookOfStage(name, stage, cmd) ==
    LET segs == Segments(Resolve(name))
    IN  /\ Len(segs) \in {PlainShape(cmd), PlainShape(cmd) + 1}
        /\ segs[1] = <<"cmp">>
        /\ segs[2] = stage
        /\ Len(segs) = PlainShape(cmd) + 1 =>
              MatchedPlatform(Resolve(name), cmd) \in Aliases \cup {<<>>}

\* The shell commands of the hooks that ended, of any stage.
HooksRun == {trace[i].shell : i \in {k \in 1..Len(trace) : IsHook(trace[k])}}

\* C38: the hooks of a runHooks call are those of the directory as it is when
\* the call is made, after every child of the earlier stages has ended: every
\* hook of the result is an entry of the directory at that moment, and every
\* entry that is a hook of the stage at that moment is in the result, whatever
\* the directory held when the command started.
C38_DiscoveryWhenStageStarts ==
    [][(hookIdx = 0 /\ hookIdx' = 1) =>
          /\ running = {}
          /\ \A i \in 1..Len(hooksList') :
                \E n \in 1..Len(entries) : hooksList'[i].file = Resolve(entries[n])
          /\ \A n \in 1..Len(entries) :
                HookOfStage(entries[n], stageOf(pc), cmdOf(pc)) =>
                    \E i \in 1..Len(hooksList') : hooksList'[i].file = Resolve(entries[n])]_vars

\* With the hook name up, started with cmp.post.up.sh and without cmp.post.sh:
\* an earlier stage removed the former and created the latter, the call for
\* the scoped post-hooks was made and cmp.post.up.sh did not run, and the
\* global post-hook cmp.post.sh ran.
C38_Witness ==
    /\ options.cmpHook = <<<<"up">>>>
    /\ pc = "done"
    /\ \E i \in 1..Len(trace) : IsCall(trace[i]) /\ Rank(trace[i]) = 4
    /\ Resolve(<<"cmp", ".", "post", ".", "up", ".", "sh">>) \notin HooksRun
    /\ Resolve(<<"cmp", ".", "post", ".", "sh">>) \in HooksRun
    /\ Resolve(<<"cmp", ".", "pre", ".", "sh">>) \in HooksRun
    /\ entries = <<<<"cmp", ".", "post", ".", "sh">>, <<"cmp", ".", "pre", ".", "sh">>>>

---------------------------------------------------------------------------
(* Global discovery and scoped hook files (SpecHooks). *)

\* The segment has a `+`, which the naming scheme keeps for the platform/binary
\* segment.
HasPlus(seg) == \E i \in 1..Len(seg) : seg[i] = "+"

\* C39: a hook discovered or run in a global stage is never a file of five
\* segments cmp.<stage>.<H>.<platform+binary>.<ext>, and is a file of four
\* segments cmp.<stage>.<H>.<ext> only when H is a name of the platform the
\* process runs on or, written with a `+`, a platform/binary segment whose
\* platform part is empty or such a name; and every hook discovered or run in
\* a scoped stage belongs to a call made for a hook name that was supplied.
C39_GlobalStagesSkipScopedFiles ==
    \A h \in HooksInSight :
        LET segs == Segments(h.file)
        IN  /\ h.cmd = <<>> =>
                  /\ Len(segs) \in {3, 4}
                  /\ Len(segs) = 4 =>
                        IF HasPlus(segs[3])
                        THEN Split(segs[3], "+")[1] \in Aliases \cup {<<>>}
                        ELSE segs[3] \in Aliases
            /\ h.cmd # <<>> => \E i \in 1..Len(options.cmpHook) : options.cmpHook[i] = h.cmd

\* On linux with the hook name up and the whole hook directory: the call for
\* the global pre-hooks found cmp.pre.sh and cmp.pre.linux.sh and nothing
\* else, although cmp.pre.up.sh, cmp.pre.down.sh and cmp.pre.up.linux.sh are
\* there, and both have run.
C39_Witness ==
    /\ platform = <<"linux">>
    /\ options.cmpHook = <<<<"up">>>>
    /\ entries = HookDirectory
    /\ pc = "preGlobal"
    /\ Len(hooksList) = 2
    /\ hooksList[1].file = Resolve(<<"cmp", ".", "pre", ".", "sh">>)
    /\ hooksList[2].file = Resolve(<<"cmp", ".", "pre", ".", "linux", ".", "sh">>)
    /\ Len(EndedInThisCall) = 2

---------------------------------------------------------------------------
(* Termination (SpecTermination). *)

\* C40: when every probe, hook and delegate process ends, every command is
\* eventually done, with no child left running and with an exit status,
\* whatever its children make of the hook directory on the way.
C40_Termination ==
    <>(pc = "done" /\ running = {} /\ ~awaiting /\ exitCode \in 0..MaxExit)

\* cmp-clean with the hook name up is done after every stage was executed,
\* a global post-hook created during the run among them.
C40_Witness ==
    /\ command = "cmp-clean"
    /\ options.cmpHook = <<<<"up">>>>
    /\ pc = "done"
    /\ running = {}
    /\ EveryStageExecuted
    /\ Len(StepsEnded) = 2
    /\ Resolve(<<"cmp", ".", "post", ".", "sh">>) \in HooksRun
    /\ exitCode = 0

=============================================================================
